---- MODULE Spec2Model ----
(***************************************************************************)
(* A model of the cross-entropy-method planner DemoCEMPolicy               *)
(* (src/src/cem/demo_cem.py): construction of the policy and the planning  *)
(* call get_action, one step per line group of its optimisation loop.      *)
(*                                                                         *)
(* Numbers.  Tensor entries are records [k, n, d]: k = "fin" is the        *)
(* rational n/d in lowest terms (d > 0) and k = "nan" is the float NaN.    *)
(* A standard deviation is held by its square (the variance), exactly:     *)
(* taking the square root changes neither whether the entry is NaN, zero   *)
(* or positive, nor which of two entries is larger.                        *)
(* Indices are 0-based as in the source.                                   *)
(***************************************************************************)
EXTENDS Integers, Sequences, FiniteSets, TLC

(* ------------------------------ bounds -------------------------------- *)
\* candidate count J and elite count K range over 1..MaxJ
MaxJ == 2
\* iteration count I ranges over 0..MaxI
MaxI == 2
\* (L, A) shapes of the belief; R ranges over the horizons
Shapes == {<<1, 1>>, <<2, 1>>, <<1, 2>>}
Horizons == {s[1] : s \in Shapes}
\* values a draw from a Gaussian with positive std can take
Vals == {0, 1}
\* cumulative rewards a rollout can report (NaN beside these)
FiniteCosts == {-1, 0}

(* ------------------------------ numbers ------------------------------- *)
NaN == [k |-> "nan", n |-> 0, d |-> 1]
Abs(x) == IF x < 0 THEN -x ELSE x

RECURSIVE GCD(_, _)
GCD(a, b) == IF b = 0 THEN a ELSE GCD(b, a % b)

\* the rational n/d (d > 0) in lowest terms
Rat(n, d) ==
  LET g == GCD(Abs(n), d)
  IN  [k |-> "fin", n |-> n \div g, d |-> d \div g]

Fin(n) == Rat(n, 1)
IsNaN(x) == x.k = "nan"
IsFinite(x) == x.k = "fin"

Add(x, y) ==
  IF IsNaN(x) \/ IsNaN(y) THEN NaN
  ELSE Rat(x.n * y.d + y.n * x.d, x.d * y.d)

Sub(x, y) ==
  IF IsNaN(x) \/ IsNaN(y) THEN NaN
  ELSE Rat(x.n * y.d - y.n * x.d, x.d * y.d)

Mul(x, y) ==
  IF IsNaN(x) \/ IsNaN(y) THEN NaN
  ELSE Rat(x.n * y.n, x.d * y.d)

\* x / m for an integer m >= 0; 0/0 is NaN, as in IEEE arithmetic
DivInt(x, m) ==
  IF IsNaN(x) THEN NaN
  ELSE IF m = 0 THEN NaN
  ELSE Rat(x.n, x.d * m)

\* x < y on finite numbers
Less(x, y) == x.n * y.d < y.n * x.d

(* --------------------------- tensor helpers --------------------------- *)
\* torch.zeros(L, A), torch.ones(L, A)
Zeros(L, A) == [l \in 0..(L - 1) |-> [a \in 0..(A - 1) |-> Fin(0)]]
Ones(L, A) == [l \in 0..(L - 1) |-> [a \in 0..(A - 1) |-> Fin(1)]]
Empty == <<>>

\* what stands in a variable that holds no rollouts (the name is unbound)
NoRollouts == [bound |-> FALSE, id |-> -1, sum_cost |-> Empty]
NoPolicy == [L |-> 0, I |-> 0, J |-> 0, K |-> 0, R |-> 0, A |-> 0]

VARIABLES
  policy,            \* the fields L, I, J, K, R, A of the DemoCEMPolicy object
  pc,                \* where the policy's caller / get_action stands
  it,                \* iterations of the optimisation loop completed
  mean, std,         \* the belief (std by its square)
  act_seq,           \* the J sampled candidates, J x L x A
  rollouts,          \* the result of the last _get_rollouts call
  costs,             \* torch.from_numpy(rollouts["sum_cost"])
  top_idx,           \* indices returned by costs.topk(K)
  gt_costs_data,     \* per-iteration log
  metric_costs_data, \* per-iteration log
  nrollouts,         \* _get_rollouts calls made by the current planning call
  ret,               \* the value get_action returned (Empty: none)
  err,               \* the exception that left get_action ("none": none)
  recalled           \* the current get_action call is not the policy's first

cemVars == <<policy, pc, it, mean, std, act_seq, rollouts, costs, top_idx,
             gt_costs_data, metric_costs_data, nrollouts, ret, err, recalled>>

(* ------------------------ the planner's operators --------------------- *)
\* Normal(mean, std) checks its parameters when argument validation is on
\* (the default of newer torch builds, off in older ones): loc must be a real
\* number and scale must be positive.
ValidNormalArgs(m, s) ==
  \A l \in DOMAIN m : \A a \in DOMAIN m[l] :
    /\ IsFinite(m[l][a])
    /\ IsFinite(s[l][a]) /\ s[l][a].n > 0

\* the values one entry of a draw from Normal(m, s) can take: loc + scale * eps
SampleEntry(m, s) ==
  IF IsNaN(m) \/ IsNaN(s) THEN {NaN}
  ELSE IF s.n = 0 THEN {m}
  ELSE {Fin(v) : v \in Vals}

\* the (L, A) matrices one candidate can be
SampleRows(m, s) ==
  {r \in [DOMAIN m -> [DOMAIN m[0] -> {Fin(v) : v \in Vals} \cup {NaN}]] :
     \A l \in DOMAIN m : \A a \in DOMAIN m[l] :
       r[l][a] \in SampleEntry(m[l][a], s[l][a])}

\* m.sample((J,)): J independent candidates, no clipping
NormalSample(m, s, J) == [0..(J - 1) -> SampleRows(m, s)]

\* x is ranked strictly before y by topk(largest=True): NaN counts as larger
\* than every number
Before(x, y) ==
  CASE IsNaN(x) -> ~IsNaN(y)
    [] IsNaN(y) -> FALSE
    [] OTHER -> Less(y, x)

Injective(f) == \A i, j \in DOMAIN f : i # j => f[i] # f[j]
Range(f) == {f[i] : i \in DOMAIN f}

\* topk taking the K smallest entries (largest=False)
TopKSmallest(c, J, K) ==
  {idx \in [0..(K - 1) -> 0..(J - 1)] :
     /\ Injective(idx)
     /\ \A i, j \in 0..(K - 1) : i < j => ~Before(c[idx[i]], c[idx[j]])
     /\ \A s \in Range(idx) : \A u \in (0..(J - 1)) \ Range(idx) :
          ~Before(c[s], c[u])}

\* a selection that may list one candidate several times
TopKRepeating(c, J, K) ==
  {idx \in [0..(K - 1) -> 0..(J - 1)] :
     /\ \A i, j \in 0..(K - 1) : i < j => ~Before(c[idx[j]], c[idx[i]])
     /\ \A s \in Range(idx) : \A u \in (0..(J - 1)) \ Range(idx) :
          ~Before(c[u], c[s])}

\* costs.topk(K) for K <= J: the index tensors torch may return.  The K
\* entries are the largest, sorted in descending order; which of several
\* equal entries is taken, and in which order, torch leaves unspecified.
TopK(c, J, K) ==
  {idx \in [0..(K - 1) -> 0..(J - 1)] :
     /\ Injective(idx)
     /\ \A i, j \in 0..(K - 1) : i < j => ~Before(c[idx[j]], c[idx[i]])
     /\ \A s \in Range(idx) : \A u \in (0..(J - 1)) \ Range(idx) :
          ~Before(c[u], c[s])}

\* torch.index_select(act_seq, dim=0, index=top_idx)
IndexSelect(acts, idx) == [i \in DOMAIN idx |-> acts[idx[i]]]

RECURSIVE SumTo(_, _)
\* f[0] + ... + f[n - 1]
SumTo(f, n) == IF n = 0 THEN Fin(0) ELSE Add(SumTo(f, n - 1), f[n - 1])

\* the elementwise mean over dim 0 of a K x L x A tensor
MeanOf(t, K, l, a) == DivInt(SumTo([i \in 0..(K - 1) |-> t[i][l][a]], K), K)

\* the sum of squared deviations from the mean
SqDev(t, K, l, a) ==
  LET mu == MeanOf(t, K, l, a)
  IN  SumTo([i \in 0..(K - 1) |->
               Mul(Sub(t[i][l][a], mu), Sub(t[i][l][a], mu))], K)

\* torch.std_mean(t, dim=0): unbiased is the default, so the divisor of the
\* variance is K - 1 (0/0 = NaN for K = 1)
StdMean(t, K, L, A) ==
  [std  |-> [l \in 0..(L - 1) |-> [a \in 0..(A - 1) |->
               DivInt(SqDev(t, K, l, a), K - 1)]],
   mean |-> [l \in 0..(L - 1) |-> [a \in 0..(A - 1) |-> MeanOf(t, K, l, a)]]]

\* mean[:R, :]: the first min(R, L) rows
Prefix(m, R, L) ==
  [l \in 0..((IF R < L THEN R ELSE L) - 1) |-> m[l]]

(* ------------------------------- actions ------------------------------ *)
CostVals == {Fin(c) : c \in FiniteCosts} \cup {NaN}

CemInit ==
  /\ policy = NoPolicy
  /\ pc = "new"
  /\ it = 0
  /\ mean = Empty /\ std = Empty
  /\ act_seq = Empty
  /\ rollouts = NoRollouts
  /\ costs = Empty
  /\ top_idx = Empty
  /\ gt_costs_data = Empty /\ metric_costs_data = Empty
  /\ nrollouts = 0
  /\ ret = Empty
  /\ err = "none"
  /\ recalled = FALSE

\* DemoCEMPolicy.__init__: the fields are copied from cfg and env, unchecked
Construct ==
  /\ pc = "new"
  /\ \E shape \in Shapes, I \in 0..MaxI, J \in 1..MaxJ, K \in 1..MaxJ,
        R \in Horizons :
       policy' = [L |-> shape[1], I |-> I, J |-> J, K |-> K, R |-> R,
                  A |-> shape[2]]
  /\ pc' = "idle"
  /\ UNCHANGED <<it, mean, std, act_seq, rollouts, costs, top_idx,
                 gt_costs_data, metric_costs_data, nrollouts, ret, err, recalled>>

\* a warm start: the mean the previous planning call ended with is kept
InitialMeanKept(m, L, A) == IF m = Empty THEN Zeros(L, A) ELSE m

\* mean = torch.zeros(L, A), whatever the variable held before (m)
InitialMean(m, L, A) == Zeros(L, A)

\* get_action, up to the head of its loop: every local starts afresh.  The
\* fields self.ep_num and self.step it also sets only name debug files.
GetAction ==
  /\ pc \in {"idle", "returned", "raised"}
  /\ recalled' = (pc # "idle")
  /\ mean' = InitialMean(mean, policy.L, policy.A)
  /\ std' = Ones(policy.L, policy.A)
  /\ gt_costs_data' = Empty /\ metric_costs_data' = Empty
  /\ it' = 0
  /\ act_seq' = Empty /\ rollouts' = NoRollouts /\ costs' = Empty
  /\ top_idx' = Empty
  /\ nrollouts' = 0
  /\ ret' = Empty /\ err' = "none"
  /\ pc' = "loop"
  /\ UNCHANGED policy

RaiseSwallowed(e) ==
  /\ pc' = "loop"
  /\ err' = e

Raise(e) ==
  /\ pc' = "raised"
  /\ err' = e

\* m = Normal(mean, std); act_seq = m.sample((J,))
Sample ==
  /\ pc = "loop" /\ it < policy.I
  /\ act_seq' \in NormalSample(mean, std, policy.J)
  /\ pc' = "evaluate"
  /\ UNCHANGED <<policy, it, mean, std, rollouts, costs, top_idx,
                 gt_costs_data, metric_costs_data, nrollouts, ret, err, recalled>>

\* Normal(mean, std) raising ValueError under argument validation
SampleRaise ==
  /\ pc = "loop" /\ it < policy.I
  /\ ~ValidNormalArgs(mean, std)
  /\ Raise("ValueError")
  /\ UNCHANGED <<policy, it, mean, std, act_seq, rollouts, costs, top_idx,
                 gt_costs_data, metric_costs_data, nrollouts, ret, recalled>>

\* rollouts = self._get_rollouts(act_seq, ...) and the two log appends; the
\* rollout is named by the iteration that asked for it
Evaluate ==
  /\ pc = "evaluate"
  /\ \E c \in [0..(policy.J - 1) -> CostVals] :
       rollouts' = [bound |-> TRUE, id |-> it, sum_cost |-> c]
  /\ nrollouts' = nrollouts + 1
  /\ gt_costs_data' = Append(gt_costs_data, rollouts'.id)
  /\ metric_costs_data' = Append(metric_costs_data, rollouts'.id)
  /\ pc' = "select"
  /\ UNCHANGED <<policy, it, mean, std, act_seq, costs, top_idx, ret, err,
                 recalled>>

\* self._get_rollouts raising (the dynamics model or the simulator fails):
\* get_action has no handler, so the exception leaves it
EvaluateRaise ==
  /\ pc = "evaluate"
  /\ nrollouts' = nrollouts + 1
  /\ Raise("RolloutError")
  /\ UNCHANGED <<policy, it, mean, std, act_seq, rollouts, costs, top_idx,
                 gt_costs_data, metric_costs_data, ret, recalled>>

\* costs = torch.from_numpy(rollouts["sum_cost"]); costs.topk(K)
Select ==
  /\ pc = "select"
  /\ policy.K <= policy.J
  /\ costs' = rollouts.sum_cost
  /\ top_idx' \in TopK(rollouts.sum_cost, policy.J, policy.K)
  /\ pc' = "refit"
  /\ UNCHANGED <<policy, it, mean, std, act_seq, rollouts, gt_costs_data,
                 metric_costs_data, nrollouts, ret, err, recalled>>

\* topk raises RuntimeError when k exceeds the size of the dimension
SelectRaise ==
  /\ pc = "select"
  /\ policy.K > policy.J
  /\ costs' = rollouts.sum_cost
  /\ Raise("RuntimeError")
  /\ UNCHANGED <<policy, it, mean, std, act_seq, rollouts, top_idx,
                 gt_costs_data, metric_costs_data, nrollouts, ret, recalled>>

\* top_act_seq = index_select(...); std, mean = torch.std_mean(top_act_seq, 0).
\* The iteration ends here: the candidates, their costs and the elite indices
\* are read by no later line (the next iteration overwrites them, the final
\* print reads only rollouts['optimal_sum_cost']), so they are forgotten.
Refit ==
  /\ pc = "refit"
  /\ LET sm == StdMean(IndexSelect(act_seq, top_idx), policy.K, policy.L,
                       policy.A)
     IN  /\ std' = sm.std
         /\ mean' = sm.mean
  /\ it' = it + 1
  /\ act_seq' = Empty /\ costs' = Empty /\ top_idx' = Empty
  /\ rollouts' = [rollouts EXCEPT !.sum_cost = Empty]
  /\ pc' = "loop"
  /\ UNCHANGED <<policy, gt_costs_data, metric_costs_data, nrollouts, ret,
                 err, recalled>>

\* the loop is exhausted: print(... rollouts['optimal_sum_cost'] ...), then
\* return mean[:R, :], gt_costs_data, metric_costs_data
Done ==
  /\ pc = "loop" /\ it = policy.I
  /\ rollouts.bound
  /\ ret' = <<Prefix(mean, policy.R, policy.L), gt_costs_data,
              metric_costs_data>>
  /\ pc' = "returned"
  /\ UNCHANGED <<policy, it, mean, std, act_seq, rollouts, costs, top_idx,
                 gt_costs_data, metric_costs_data, nrollouts, err, recalled>>

\* the print reads the local name rollouts, which no iteration has bound
DoneRaise ==
  /\ pc = "loop" /\ it = policy.I
  /\ ~rollouts.bound
  /\ Raise("UnboundLocalError")
  /\ UNCHANGED <<policy, it, mean, std, act_seq, rollouts, costs, top_idx,
                 gt_costs_data, metric_costs_data, nrollouts, ret, recalled>>

(* ---------------- the shared simulator (ground-truth rollouts) ----------- *)

\* flattened simulator states are drawn from 0..MaxSimState
MaxSimState == 2
SimStates == 0..MaxSimState
\* environment steps of one ground-truth rollout generation
MaxSimSteps == 2

VARIABLES
  sim,          \* self.env's flattened state
  s_pc,         \* position inside compare_optimal_actions / _get_rollouts
  s_caller,     \* "compare" (compare_optimal_actions) or "plan" (_get_rollouts)
  old_state,    \* local old_state of compare_optimal_actions
  gen_saved,    \* state the rollout generator saved on entry
  gen_t,        \* environment steps the generator has taken
  pre_call,     \* history: the simulator's state when the call began
  s_out         \* "none" | "returned" | "raised": how the last call ended

simVars == <<sim, s_pc, s_caller, old_state, gen_saved, gen_t, pre_call, s_out>>

SimOff ==
  /\ sim = 0 /\ s_pc = "idle" /\ s_caller = "none" /\ old_state = 0
  /\ gen_saved = 0 /\ gen_t = 0 /\ pre_call = 0 /\ s_out = "none"

SimInit ==
  /\ sim \in SimStates
  /\ s_pc = "idle" /\ s_caller = "none" /\ old_state = 0
  /\ gen_saved = 0 /\ gen_t = 0 /\ pre_call = sim /\ s_out = "none"

RestoreStateSkipped(old, cur) == cur

\* self.env.set_flattened_state(old_state)
RestoreState(old, cur) == old

\* old_state = self.env.get_flattened_state();
\* self.env.set_flattened_state(demo["states"][0])
CompareBegin ==
  /\ s_pc = "idle"
  /\ \E demo_start_state \in SimStates : sim' = demo_start_state
  /\ old_state' = sim
  /\ pre_call' = sim
  /\ s_caller' = "compare"
  /\ s_pc' = "gen"
  /\ s_out' = "none"
  /\ UNCHANGED <<gen_saved, gen_t>>

\* _get_rollouts with use_env_dynamics: the generator is called on self.env
\* with no save or restore of its own
PlanRolloutsBegin ==
  /\ s_pc = "idle"
  /\ pre_call' = sim
  /\ s_caller' = "plan"
  /\ s_pc' = "gen"
  /\ s_out' = "none"
  /\ UNCHANGED <<sim, old_state, gen_saved, gen_t>>

\* an uncaught exception leaves the call: nothing after the raising
\* statement runs
SimRaise ==
  /\ s_pc' = "idle"
  /\ s_out' = "raised"

\* generate_env_rollouts, ground-truth mode: remembers the environment's
\* state on entry
GenBegin ==
  /\ s_pc = "gen"
  /\ gen_saved' = sim
  /\ gen_t' = 0
  /\ s_pc' = "gen_step"
  /\ UNCHANGED <<sim, s_caller, old_state, pre_call, s_out>>

\* one environment step of a rollout: the simulator moves
GenStep ==
  /\ s_pc = "gen_step"
  /\ gen_t < MaxSimSteps
  /\ sim' \in SimStates
  /\ gen_t' = gen_t + 1
  /\ UNCHANGED <<s_pc, s_caller, old_state, gen_saved, pre_call, s_out>>

\* the generator restores the environment's prior state and returns
GenEnd ==
  /\ s_pc = "gen_step"
  /\ gen_t = MaxSimSteps
  /\ sim' = gen_saved
  /\ IF s_caller = "compare"
       THEN s_pc' = "cmp_model" /\ s_out' = s_out
       ELSE s_pc' = "idle" /\ s_out' = "returned"
  /\ UNCHANGED <<s_caller, old_state, gen_saved, gen_t, pre_call>>

\* the generator fails at some step; whether it put its saved state back
\* first is not known, and neither caller has a handler
GenRaise ==
  /\ s_pc = "gen_step"
  /\ sim' \in {sim, gen_saved}
  /\ SimRaise
  /\ UNCHANGED <<s_caller, old_state, gen_saved, gen_t, pre_call>>

\* generate_model_rollouts(...) of compare_optimal_actions returning
CompareModel ==
  /\ s_pc = "cmp_model"
  /\ s_pc' = "cmp_gif"
  /\ UNCHANGED <<sim, s_caller, old_state, gen_saved, gen_t, pre_call, s_out>>

\* generate_model_rollouts(...) raising
CompareModelRaise ==
  /\ s_pc = "cmp_model"
  /\ SimRaise
  /\ UNCHANGED <<sim, s_caller, old_state, gen_saved, gen_t, pre_call>>

\* imageio.mimwrite(gif_path, gif) returning
CompareGif ==
  /\ s_pc = "cmp_gif"
  /\ s_pc' = "cmp_restore"
  /\ UNCHANGED <<sim, s_caller, old_state, gen_saved, gen_t, pre_call, s_out>>

\* imageio.mimwrite(gif_path, gif) raising
CompareGifRaise ==
  /\ s_pc = "cmp_gif"
  /\ SimRaise
  /\ UNCHANGED <<sim, s_caller, old_state, gen_saved, gen_t, pre_call>>

\* self.env.set_flattened_state(old_state), the last statement
CompareRestore ==
  /\ s_pc = "cmp_restore"
  /\ sim' = RestoreState(old_state, sim)
  /\ s_pc' = "idle"
  /\ s_out' = "returned"
  /\ UNCHANGED <<s_caller, old_state, gen_saved, gen_t, pre_call>>

(* ---------------- the debug gifs of _get_rollouts (plot_rollouts) -------- *)

\* largest cfg.horizon, len(goal_imgs) and obs.shape[0] explored
MaxHorizon == 5
MaxGoals == 3
MaxPlotted == 2

VARIABLES
  gif_pc,       \* position inside the plotting branch of _get_rollouts
  gif_L,        \* self.cfg.horizon
  gif_G,        \* len(goal_imgs)
  gif_N,        \* obs.shape[0]
  gif_n,        \* loop variable n
  gif_t,        \* loop variable t
  gif,          \* the list gif, each frame by the goal index it shows
  gif_written,  \* gifs written by imageio.mimwrite in this call
  gif_err       \* "none" or the exception that left the call

gifVars == <<gif_pc, gif_L, gif_G, gif_N, gif_n, gif_t, gif, gif_written,
             gif_err>>

GifOff ==
  /\ gif_pc = "idle" /\ gif_L = 0 /\ gif_G = 0 /\ gif_N = 0 /\ gif_n = 0
  /\ gif_t = 0 /\ gif = <<>> /\ gif_written = 0 /\ gif_err = "none"

GoalIndexWrapped(t, G) == IF t < G THEN t ELSE 0

\* g = t if t < len(goal_imgs) else -1
GoalIndex(t, G) == IF t < G THEN t ELSE -1

\* goal_imgs[g]: a negative index counts from the end of the list
ListIndex(g, G) == IF g < 0 THEN g + G ELSE g

\* goal_imgs[g] raises IndexError outside -G..G-1
IndexInRange(g, G) == ListIndex(g, G) \in 0..(G - 1)

\* if self.plot_rollouts: ... os.makedirs(gif_folder, exist_ok=True)
GifCall ==
  /\ gif_pc \in {"idle", "done", "raised"}
  /\ gif_L' \in 0..MaxHorizon
  /\ gif_G' \in 0..MaxGoals
  /\ gif_N' \in 0..MaxPlotted
  /\ gif_n' = 0 /\ gif_t' = 0 /\ gif' = <<>> /\ gif_written' = 0
  /\ gif_err' = "none"
  /\ gif_pc' = "outer"

\* for n in range(obs.shape[0]): goal_img = goal_imgs[0]; gif = [img]
GifCandidate ==
  /\ gif_pc = "outer" /\ gif_n < gif_N
  /\ IndexInRange(0, gif_G)
  /\ gif' = <<ListIndex(0, gif_G)>>
  /\ gif_t' = 0
  /\ gif_pc' = "inner"
  /\ UNCHANGED <<gif_L, gif_G, gif_N, gif_n, gif_written, gif_err>>

\* goal_imgs[0] or goal_imgs[g] on an index out of range
GifIndexError ==
  /\ \/ gif_pc = "outer" /\ gif_n < gif_N /\ ~IndexInRange(0, gif_G)
     \/ /\ gif_pc = "inner" /\ gif_t < gif_L
        /\ ~IndexInRange(GoalIndex(gif_t, gif_G), gif_G)
  /\ gif_err' = "IndexError"
  /\ gif_pc' = "raised"
  /\ UNCHANGED <<gif_L, gif_G, gif_N, gif_n, gif_t, gif, gif_written>>

\* for t in range(self.cfg.horizon): ... goal_img = goal_imgs[g];
\* gif.append(img)
GifFrame ==
  /\ gif_pc = "inner" /\ gif_t < gif_L
  /\ IndexInRange(GoalIndex(gif_t, gif_G), gif_G)
  /\ gif' = Append(gif, ListIndex(GoalIndex(gif_t, gif_G), gif_G))
  /\ gif_t' = gif_t + 1
  /\ UNCHANGED <<gif_pc, gif_L, gif_G, gif_N, gif_n, gif_written, gif_err>>

\* imageio.mimwrite(gif_path, gif), then the next n
GifWrite ==
  /\ gif_pc = "inner" /\ gif_t = gif_L
  /\ gif_written' = gif_written + 1
  /\ gif_n' = gif_n + 1
  /\ gif_pc' = "outer"
  /\ UNCHANGED <<gif_L, gif_G, gif_N, gif_t, gif, gif_err>>

\* os.makedirs(gif_folder, exist_ok=True) or imageio.mimwrite(gif_path, gif)
\* failing (disk full, no permission): _get_rollouts has no handler, the
\* OSError leaves it and, through get_action, the planning call
GifIOError ==
  /\ \/ gif_pc = "outer" /\ gif_n = 0 /\ gif_written = 0
     \/ gif_pc = "inner" /\ gif_t = gif_L
  /\ gif_err' = "OSError"
  /\ gif_pc' = "raised"
  /\ UNCHANGED <<gif_L, gif_G, gif_N, gif_n, gif_t, gif, gif_written>>

\* return rollouts
GifDone ==
  /\ gif_pc = "outer" /\ gif_n = gif_N
  /\ gif_pc' = "done"
  /\ UNCHANGED <<gif_L, gif_G, gif_N, gif_n, gif_t, gif, gif_written, gif_err>>

(* ---------------- two planning runs and torch's default generator ------- *)

\* iterations of each run, and draws other code may take from the generator
MaxReproIters == 2
MaxOtherDraws == 1
\* candidates per iteration in the two runs (J = K, L = A = 1)
ReproJ == 2
StreamLen == MaxReproIters * ReproJ + MaxOtherDraws
Runs == {"a", "b"}

VARIABLES
  stream,       \* the numbers torch's default generator yields from its seed
  validate,     \* whether this torch build validates Normal's arguments
  r_pos,        \* per run: how many numbers the process has drawn so far
  r_it,         \* per run: completed iterations
  r_mean,       \* per run: mean
  r_std,        \* per run: std (squared)
  r_pc,         \* per run: "loop" | "returned" | "raised"
  r_ret         \* per run: the returned prefix

reproVars == <<stream, validate, r_pos, r_it, r_mean, r_std, r_pc, r_ret>>

ReproOff ==
  /\ stream = Empty /\ validate = FALSE
  /\ r_pos = Empty /\ r_it = Empty /\ r_mean = Empty /\ r_std = Empty
  /\ r_pc = Empty /\ r_ret = Empty

\* both runs start from the same generator state (same seed, or the default
\* seed of a fresh process), the same torch build and the same configuration
ReproInit ==
  /\ stream \in [0..(StreamLen - 1) -> Vals]
  /\ validate \in BOOLEAN
  /\ r_pos = [r \in Runs |-> 0]
  /\ r_it = [r \in Runs |-> 0]
  /\ r_mean = [r \in Runs |-> InitialMean(Empty, 1, 1)]
  /\ r_std = [r \in Runs |-> Ones(1, 1)]
  /\ r_pc = [r \in Runs |-> "loop"]
  /\ r_ret = [r \in Runs |-> Empty]

\* one entry of m.sample(...) when the generator yields u: the draw is made
\* from the process-wide default generator (sample takes no generator)
DrawEntry(m, s, u) ==
  IF IsNaN(m) \/ IsNaN(s) THEN NaN
  ELSE IF s.n = 0 THEN m
  ELSE Fin(u)

\* act_seq = m.sample((J,)) with the generator at position p
DrawSample(m, s, p) ==
  [j \in 0..(ReproJ - 1) |->
     [l \in 0..0 |-> [a \in 0..0 |-> DrawEntry(m[0][0], s[0][0], stream[p + j])]]]

\* one iteration of the loop of get_action with K = J: every candidate is
\* elite, so the refit is over the whole sample
ReproIterate(r) ==
  /\ r_pc[r] = "loop" /\ r_it[r] < MaxReproIters
  /\ validate => ValidNormalArgs(r_mean[r], r_std[r])
  /\ r_pos[r] + ReproJ <= StreamLen
  /\ LET acts == DrawSample(r_mean[r], r_std[r], r_pos[r])
         sm == StdMean(acts, ReproJ, 1, 1)
     IN  /\ r_mean' = [r_mean EXCEPT ![r] = sm.mean]
         /\ r_std' = [r_std EXCEPT ![r] = sm.std]
  /\ r_pos' = [r_pos EXCEPT ![r] = @ + ReproJ]
  /\ r_it' = [r_it EXCEPT ![r] = @ + 1]
  /\ UNCHANGED <<stream, validate, r_pc, r_ret>>

\* Normal(mean, std) raising ValueError on a zero std
ReproRaise(r) ==
  /\ r_pc[r] = "loop" /\ r_it[r] < MaxReproIters
  /\ validate /\ ~ValidNormalArgs(r_mean[r], r_std[r])
  /\ r_pc' = [r_pc EXCEPT ![r] = "raised"]
  /\ UNCHANGED <<stream, validate, r_pos, r_it, r_mean, r_std, r_ret>>

\* return mean[: self.R, :]
ReproReturn(r) ==
  /\ r_pc[r] = "loop" /\ r_it[r] = MaxReproIters
  /\ r_ret' = [r_ret EXCEPT ![r] = Prefix(r_mean[r], 1, 1)]
  /\ r_pc' = [r_pc EXCEPT ![r] = "returned"]
  /\ UNCHANGED <<stream, validate, r_pos, r_it, r_mean, r_std>>

\* any other draw from the default generator in the same process (another
\* sampling call, a shuffling DataLoader): it moves the generator on
OtherDraw(r) ==
  /\ r_pc[r] = "loop"
  /\ r_pos[r] < r_it[r] * ReproJ + MaxOtherDraws
  /\ r_pos' = [r_pos EXCEPT ![r] = @ + 1]
  /\ UNCHANGED <<stream, validate, r_it, r_mean, r_std, r_pc, r_ret>>

ReproIterateAny == \E r \in Runs : ReproIterate(r)
ReproRaiseAny == \E r \in Runs : ReproRaise(r)
ReproReturnAny == \E r \in Runs : ReproReturn(r)
OtherDrawAny == \E r \in Runs : OtherDraw(r)

(* ---------------- the closed-loop driver (visual_MPC_controller) -------- *)

\* cf.max_episode_length = 4
max_episode_length == 4
\* largest number of returned actions and of planner iterations explored
MaxR == 2
MaxDriverI == 2
\* robot poses are drawn from 0..MaxPose
MaxPose == 1
Poses == 0..MaxPose

\* an action is known by the planning call it came from, its row in the
\* returned array and the iterations that call had completed
NoAction == [plan |-> -1, idx |-> -1, iters |-> 0]

VARIABLES
  d_pc,         \* position of the main loop
  d_t,          \* loop variable t
  d_R,          \* rows the planner returns
  d_I,          \* iterations of a planning call
  world,        \* the robot's pose
  d_start,      \* variable start
  d_read,       \* history: the last state read and the commands sent before
  d_plan_arg,   \* the State the running or last planning call was given
  p_it,         \* iterations the running planning call has completed
  d_actions,    \* value returned by vmpc.cem
  d_act,        \* variable act
  cmds,         \* history: the motion commands sent to the endpoint
  nplans,       \* history: planning calls started
  d_err         \* "none" or the exception that ended the driver

driverVars == <<d_pc, d_t, d_R, d_I, world, d_start, d_read, d_plan_arg, p_it,
                d_actions, d_act, cmds, nplans, d_err>>

DriverOff ==
  /\ d_pc = "off" /\ d_t = 0 /\ d_R = 0 /\ d_I = 0 /\ world = 0
  /\ d_start = 0 /\ d_read = [val |-> 0, after |-> 0] /\ d_plan_arg = 0
  /\ p_it = 0 /\ d_actions = <<>> /\ d_act = NoAction /\ cmds = <<>>
  /\ nplans = 0 /\ d_err = "none"

\* start, goal = vmpc.create_start_goal(): start holds the pose the endpoint
\* reported
DriverInit ==
  /\ d_pc = "loop" /\ d_t = 0
  /\ d_R \in 1..MaxR /\ d_I \in 1..MaxDriverI
  /\ world \in Poses
  /\ d_start = world /\ d_read = [val |-> world, after |-> 0]
  /\ d_plan_arg = 0
  /\ p_it = 0 /\ d_actions = <<>> /\ d_act = NoAction /\ cmds = <<>>
  /\ nplans = 0 /\ d_err = "none"

LoopContinuesOnceMore(t) == t <= max_episode_length

\* for t in range(cf.max_episode_length)
LoopContinues(t) == t < max_episode_length

ActionToExecuteStale(returned, prev) == prev

\* act = vmpc.cem(start, goal, t, opt_traj)[0]  # get first action
ActionToExecute(returned, prev) == returned[1]

NextStartKept(read, prev) == prev

\* start = vmpc.get_state()
NextStart(read, prev) == read

\* vmpc.cem(start, goal, t, opt_traj): self.policy.get_action begins
DPlanBegin ==
  /\ d_pc = "loop" /\ LoopContinues(d_t)
  /\ d_plan_arg' = d_start
  /\ p_it' = 0
  /\ nplans' = nplans + 1
  /\ d_pc' = "planning"
  /\ UNCHANGED <<d_t, d_R, d_I, world, d_start, d_read, d_actions, d_act,
                 cmds, d_err>>

\* one iteration of the planning call
DPlanIterate ==
  /\ d_pc = "planning" /\ p_it < d_I
  /\ p_it' = p_it + 1
  /\ UNCHANGED <<d_pc, d_t, d_R, d_I, world, d_start, d_read, d_plan_arg,
                 d_actions, d_act, cmds, nplans, d_err>>

\* the planning call returns its R actions after the last iteration;
\* act = ...[0]
DPlanReturn ==
  /\ d_pc = "planning" /\ p_it = d_I
  /\ d_actions' = [r \in 1..d_R |-> [plan |-> d_t, idx |-> r, iters |-> p_it]]
  /\ d_act' = ActionToExecute(d_actions', d_act)
  /\ d_pc' = "exec_query"
  /\ UNCHANGED <<d_t, d_R, d_I, world, d_start, d_read, d_plan_arg, p_it,
                 cmds, nplans, d_err>>

AfterUncaughtResumes(at) == IF at = "planning" THEN "exec_query" ELSE "aborted"

\* the loop body has no try/except: an exception raised at any statement of
\* it ends the program with a traceback
AfterUncaught(at) == "aborted"

\* the planning call raises; the loop has no handler
DPlanRaise ==
  /\ d_pc = "planning"
  /\ d_pc' = AfterUncaught(d_pc)
  /\ d_err' = "PlanError"
  /\ UNCHANGED <<d_t, d_R, d_I, world, d_start, d_read, d_plan_arg, p_it,
                 d_actions, d_act, cmds, nplans>>

\* execute_action: control_result = eef_control_client(target_pose=[])
DExecQuery ==
  /\ d_pc = "exec_query"
  /\ d_pc' = "exec_move"
  /\ UNCHANGED <<d_t, d_R, d_I, world, d_start, d_read, d_plan_arg, p_it,
                 d_actions, d_act, cmds, nplans, d_err>>

\* execute_action: eef_control_client(target_pose=[*end_xy, ...]); the
\* robot moves
DExecMove ==
  /\ d_pc = "exec_move"
  /\ cmds' = Append(cmds, [step |-> d_t, act |-> d_act])
  /\ world' \in Poses
  /\ d_pc' = "get_state"
  /\ UNCHANGED <<d_t, d_R, d_I, d_start, d_read, d_plan_arg, p_it, d_actions,
                 d_act, nplans, d_err>>

\* start = vmpc.get_state(), then the next t
DGetState ==
  /\ d_pc = "get_state"
  /\ d_read' = [val |-> world, after |-> Len(cmds)]
  /\ d_start' = NextStart(world, d_start)
  /\ d_t' = d_t + 1
  /\ d_pc' = "loop"
  /\ UNCHANGED <<d_R, d_I, world, d_plan_arg, p_it, d_actions, d_act, cmds,
                 nplans, d_err>>

\* the endpoint reports a timeout for a query or for the motion command (a
\* fatal error of the call); the loop has no handler.  A motion command that
\* timed out was sent, and the robot may have moved
DEndpointTimeout ==
  /\ d_pc \in {"exec_query", "exec_move", "get_state"}
  /\ IF d_pc = "exec_move"
       THEN /\ cmds' = Append(cmds, [step |-> d_t, act |-> d_act])
            /\ world' \in Poses
       ELSE UNCHANGED <<cmds, world>>
  /\ d_pc' = AfterUncaught(d_pc)
  /\ d_err' = "Timeout"
  /\ UNCHANGED <<d_t, d_R, d_I, d_start, d_read, d_plan_arg, p_it, d_actions,
                 d_act, nplans>>

\* the loop is over: imageio.mimwrite(cf.log_dir + "/closed_loop.gif", ...)
DFinish ==
  /\ d_pc = "loop" /\ ~LoopContinues(d_t)
  /\ d_pc' = "finished"
  /\ UNCHANGED <<d_t, d_R, d_I, world, d_start, d_read, d_plan_arg, p_it,
                 d_actions, d_act, cmds, nplans, d_err>>

(* ---------------- FrankaControlClient and its action server ------------- *)

\* goals a client may send in all
MaxSent == 3

VARIABLES
  c_pc,         \* position inside send_target_eef_request / reset
  c_kind,       \* "target" (send_target_eef_request) or "reset" (reset)
  srv_up,       \* the action server is available
  active,       \* goals the server has accepted and not finished
  finished,     \* goals the server has produced a result for
  c_goal,       \* the goal the client tracks (0: none)
  n_sent,       \* goals sent so far
  c_srv_ok,     \* value wait_for_server returned
  c_res_ok,     \* value wait_for_result returned
  c_ret,        \* "unset" | "result" | "None": value of the last get_result()
  c_out         \* "none" | "returned" | "raised": how the last call ended

clientVars == <<c_pc, c_kind, srv_up, active, finished, c_goal, n_sent,
                c_srv_ok, c_res_ok, c_ret, c_out>>

ClientOff ==
  /\ c_pc = "off" /\ c_kind = "none" /\ srv_up = FALSE /\ active = {}
  /\ finished = {} /\ c_goal = 0 /\ n_sent = 0 /\ c_srv_ok = FALSE
  /\ c_res_ok = FALSE /\ c_ret = "unset" /\ c_out = "none"

\* FrankaControlClient(): the server may or may not be running
ClientInit ==
  /\ c_pc = "idle" /\ c_kind = "none" /\ srv_up \in BOOLEAN /\ active = {}
  /\ finished = {} /\ c_goal = 0 /\ n_sent = 0 /\ c_srv_ok = FALSE
  /\ c_res_ok = FALSE /\ c_ret = "unset" /\ c_out = "none"

\* send_target_eef_request(target_pose) or reset() is called
CCall ==
  /\ c_pc = "idle" /\ n_sent < MaxSent
  /\ c_kind' \in {"target", "reset"}
  /\ c_pc' = "wait_server"
  /\ c_out' = "none" /\ c_ret' = "unset"
  /\ c_srv_ok' = FALSE /\ c_res_ok' = FALSE
  /\ UNCHANGED <<srv_up, active, finished, c_goal, n_sent>>

\* self.client.wait_for_server(rospy.Duration(10)): True when the server is
\* there, False after the 10 s otherwise; the value is dropped either way
CWaitForServer ==
  /\ c_pc = "wait_server"
  /\ c_srv_ok' = srv_up
  /\ c_pc' = "send"
  /\ UNCHANGED <<c_kind, srv_up, active, finished, c_goal, n_sent, c_res_ok,
                 c_ret, c_out>>

\* send_goal stops tracking the earlier goal (without cancelling it) and
\* tracks the new one
Tracks(new, old) == new

\* self.client.send_goal(g): the goal is published; a server that is up
\* accepts it, otherwise it is lost
CSendGoal ==
  /\ c_pc = "send"
  /\ n_sent' = n_sent + 1
  /\ c_goal' = Tracks(n_sent + 1, c_goal)
  /\ active' = IF srv_up THEN active \cup {n_sent + 1} ELSE active
  /\ c_pc' = "wait_result"
  /\ UNCHANGED <<c_kind, srv_up, finished, c_srv_ok, c_res_ok, c_ret, c_out>>

\* self.client.wait_for_result(rospy.Duration(10)): True when the tracked
\* goal is done, False after the 10 s otherwise; the value is dropped
CWaitForResult ==
  /\ c_pc = "wait_result"
  /\ c_res_ok' = (c_goal \in finished)
  /\ c_pc' = "get_result"
  /\ UNCHANGED <<c_kind, srv_up, active, finished, c_goal, n_sent, c_srv_ok,
                 c_ret, c_out>>

\* return self.client.get_result(): None when the tracked goal has no
\* result
CGetResult ==
  /\ c_pc = "get_result"
  /\ c_ret' = IF c_goal \in finished THEN "result" ELSE "None"
  /\ c_out' = "returned"
  /\ c_pc' = "idle"
  /\ UNCHANGED <<c_kind, srv_up, active, finished, c_goal, n_sent, c_srv_ok,
                 c_res_ok>>

\* the server finishes one of its goals and publishes the result
SrvFinish ==
  /\ srv_up
  /\ \E g \in active :
       /\ active' = active \ {g}
       /\ finished' = finished \cup {g}
  /\ UNCHANGED <<c_pc, c_kind, srv_up, c_goal, n_sent, c_srv_ok, c_res_ok,
                 c_ret, c_out>>

\* the server comes up
SrvStart ==
  /\ ~srv_up
  /\ srv_up' = TRUE
  /\ UNCHANGED <<c_pc, c_kind, active, finished, c_goal, n_sent, c_srv_ok,
                 c_res_ok, c_ret, c_out>>

\* the server goes away, and its goals with it
SrvStop ==
  /\ srv_up
  /\ srv_up' = FALSE
  /\ active' = {}
  /\ UNCHANGED <<c_pc, c_kind, finished, c_goal, n_sent, c_srv_ok, c_res_ok,
                 c_ret, c_out>>

(* ---------------- demo-generation workers and the files they write ------ *)

\* largest worker rank and number of trajectories per worker explored
MaxRank == 11
MaxTraj == 11

DigitChars == <<"0", "1", "2", "3", "4", "5", "6", "7", "8", "9">>

RECURSIVE Digits(_)
\* the decimal digits an f-string puts for a non-negative int
Digits(n) ==
  IF n < 10 THEN <<DigitChars[n + 1]>>
  ELSE Digits(n \div 10) \o <<DigitChars[(n % 10) + 1]>>

DemoNameUnseparated(behavior, rank, i) ==
  <<"demo_dir/", behavior, "_">> \o Digits(rank) \o Digits(i) \o <<".hdf5">>

\* os.path.join(config.demo_dir, f"{behavior}_{rank}_{i}.hdf5")
DemoName(behavior, rank, i) ==
  <<"demo_dir/", behavior, "_">> \o Digits(rank) \o <<"_">> \o Digits(i)
    \o <<".hdf5">>

\* f"videos/{behavior}_{config.seed}_{i}.gif"
RecordName(behavior, seed, i) ==
  <<"videos/", behavior, "_">> \o Digits(seed) \o <<"_">> \o Digits(i)
    \o <<".gif">>

\* os.path.join(config.demo_dir, f"stats_{behavior}_{config.seed}.txt")
StatsName(behavior, seed) ==
  <<"demo_dir/", "stats_", behavior, "_">> \o Digits(seed) \o <<".txt">>

\* the behavior a worker is started with: the one behavior of
\* create_demo_dataset, or by rank parity in collect_multiview_trajectories
BehaviorOf(kind, rank) ==
  IF kind = "demos" THEN "straight_push"
  ELSE IF rank % 2 = 0 THEN "random_robot" ELSE "push"

\* two of the workers of one run are followed
Followed == {1, 2}

VARIABLES
  w_kind,       \* "demos" (generate_demos) | "multiview" (collect_multiview_trajectory)
  w_record,     \* argument record
  w_ntraj,      \* num_trajectories
  w_rank,       \* per followed worker: its rank
  w_pc,         \* per worker: "new" | "loop" | "after" | "stats" | "done" | "raised"
  w_i,          \* per worker: loop variable i
  w_seed,       \* per worker: config.seed in that process
  w_env,        \* per worker: the simulator instance it uses (0: none yet)
  n_envs,       \* simulator instances constructed so far
  w_files       \* per worker: the paths it has opened for writing

workerVars == <<w_kind, w_record, w_ntraj, w_rank, w_pc, w_i, w_seed, w_env,
                n_envs, w_files>>

WorkerOff ==
  /\ w_kind = "none" /\ w_record = FALSE /\ w_ntraj = 0 /\ w_rank = <<>>
  /\ w_pc = <<>> /\ w_i = <<>> /\ w_seed = <<>> /\ w_env = <<>>
  /\ n_envs = 0 /\ w_files = <<>>

\* Process(target=..., args=(i, config, behavior, record, num, ep_len)) for
\* i in range(num_workers): two processes of different rank, each with its
\* own copy of config
WorkerInit ==
  /\ w_kind \in {"demos", "multiview"}
  /\ w_record \in BOOLEAN
  /\ w_ntraj \in {0, MaxTraj}
  /\ \E ra \in 0..MaxRank, rb \in 0..MaxRank :
       ra < rb /\ w_rank = [w \in Followed |-> IF w = 1 THEN ra ELSE rb]
  /\ w_pc = [w \in Followed |-> "new"]
  /\ w_i = [w \in Followed |-> 0]
  /\ w_seed = [w \in Followed |-> -1]
  /\ w_env = [w \in Followed |-> 0]
  /\ n_envs = 0
  /\ w_files = [w \in Followed |-> {}]

\* env = ClutterPushEnv(config): a new simulator object in the worker
NewSimulator(count) == count + 1

\* config.seed = rank; env = ClutterPushEnv(config)
WStart(w) ==
  /\ w_pc[w] = "new"
  /\ w_seed' = [w_seed EXCEPT ![w] = w_rank[w]]
  /\ n_envs' = n_envs + 1
  /\ w_env' = [w_env EXCEPT ![w] = NewSimulator(n_envs)]
  /\ w_pc' = [w_pc EXCEPT ![w] = "loop"]
  /\ UNCHANGED <<w_kind, w_record, w_ntraj, w_rank, w_i, w_files>>

\* one pass of for i in it.  generate_demos writes the gif (rank 0 with
\* record only) and the hdf5 file of the trajectory;
\* collect_multiview_trajectory only collects the frames
WTrajectory(w) ==
  /\ w_pc[w] = "loop" /\ w_i[w] < w_ntraj
  /\ LET b == BehaviorOf(w_kind, w_rank[w])
         gifs == IF w_rank[w] = 0 /\ w_record
                   THEN {RecordName(b, w_seed[w], w_i[w])} ELSE {}
     IN  w_files' = [w_files EXCEPT ![w] =
           IF w_kind = "demos"
             THEN @ \cup gifs \cup {DemoName(b, w_rank[w], w_i[w])}
             ELSE @]
  /\ w_i' = [w_i EXCEPT ![w] = @ + 1]
  /\ UNCHANGED <<w_kind, w_record, w_ntraj, w_rank, w_pc, w_seed, w_env, n_envs>>

\* the loop is over.  collect_multiview_trajectory now opens path, the name
\* of the last trajectory, for all frames (path is unbound when the loop
\* never ran); generate_demos goes on to the stats
WAfterLoop(w) ==
  /\ w_pc[w] = "loop" /\ w_i[w] = w_ntraj
  /\ IF w_kind = "multiview"
       THEN IF w_ntraj = 0
              THEN /\ w_pc' = [w_pc EXCEPT ![w] = "raised"]
                   /\ UNCHANGED w_files
              ELSE /\ w_files' = [w_files EXCEPT ![w] = @ \cup
                        {DemoName(BehaviorOf(w_kind, w_rank[w]), w_rank[w],
                                  w_ntraj - 1)}]
                   /\ w_pc' = [w_pc EXCEPT ![w] = "stats"]
       ELSE /\ w_pc' = [w_pc EXCEPT ![w] = "stats"]
            /\ UNCHANGED w_files
  /\ UNCHANGED <<w_kind, w_record, w_ntraj, w_rank, w_i, w_seed, w_env, n_envs>>

\* with open(stats_path, "w") as f: f.write(stats_str)
WStats(w) ==
  /\ w_pc[w] = "stats"
  /\ w_files' = [w_files EXCEPT ![w] = @ \cup
        {StatsName(BehaviorOf(w_kind, w_rank[w]), w_seed[w])}]
  /\ w_pc' = [w_pc EXCEPT ![w] = "done"]
  /\ UNCHANGED <<w_kind, w_record, w_ntraj, w_rank, w_i, w_seed, w_env, n_envs>>

WStartAny == \E w \in Followed : WStart(w)
WTrajectoryAny == \E w \in Followed : WTrajectory(w)
WAfterLoopAny == \E w \in Followed : WAfterLoop(w)
WStatsAny == \E w \in Followed : WStats(w)

(* ---------------- the candidates on their way through one iteration ----- *)

\* spaces.Box(-1.0, 1.0, ...): the bound of the environment's action space
ActionHigh == 1
\* values a draw can take, inside and outside the action space
DrawVals == {-2, 0, 2}
\* iterations of the call followed
MaxPassIters == 2
\* candidates per iteration (L = A = 1)
PassJ == 2

VARIABLES
  q_pc,         \* "sample" | "rollout" | "select" | "refit" | "returned"
  q_K,          \* self.K
  q_it,         \* completed iterations
  q_mean,       \* mean
  q_std,        \* std (squared)
  q_sample,     \* history: the tensor m.sample((J,)) returned
  q_act_seq,    \* variable act_seq
  q_passed,     \* the act_seq argument _get_rollouts received
  q_costs,      \* rollouts["sum_cost"]
  q_idx,        \* top_idx
  q_top         \* top_act_seq

passVars == <<q_pc, q_K, q_it, q_mean, q_std, q_sample, q_act_seq, q_passed,
              q_costs, q_idx, q_top>>

PassOff ==
  /\ q_pc = "off" /\ q_K = 0 /\ q_it = 0 /\ q_mean = Empty /\ q_std = Empty
  /\ q_sample = Empty /\ q_act_seq = Empty /\ q_passed = Empty
  /\ q_costs = Empty /\ q_idx = Empty /\ q_top = Empty

\* mean = torch.zeros(L, A); std = torch.ones(L, A)
PassInit ==
  /\ q_pc = "sample" /\ q_K \in 1..PassJ /\ q_it = 0
  /\ q_mean = InitialMean(Empty, 1, 1) /\ q_std = Ones(1, 1)
  /\ q_sample = Empty /\ q_act_seq = Empty /\ q_passed = Empty
  /\ q_costs = Empty /\ q_idx = Empty /\ q_top = Empty

\* one entry of a draw from Normal(m, s)
PassEntry(m, s) ==
  IF IsNaN(m) \/ IsNaN(s) THEN {NaN}
  ELSE IF s.n = 0 THEN {m}
  ELSE {Fin(v) : v \in DrawVals}

\* x limited to the action space [-ActionHigh, ActionHigh]
Clip(x) ==
  IF IsNaN(x) THEN x
  ELSE IF Less(Fin(ActionHigh), x) THEN Fin(ActionHigh)
  ELSE IF Less(x, Fin(0 - ActionHigh)) THEN Fin(0 - ActionHigh)
  ELSE x

ActSeqClipped(sample) ==
  [j \in DOMAIN sample |-> [l \in DOMAIN sample[j] |->
     [a \in DOMAIN sample[j][l] |-> Clip(sample[j][l][a])]]]

\* act_seq = m.sample((self.J,)): the draw itself, nothing applied to it
ActSeqOf(sample) == sample

\* m = Normal(mean, std); act_seq = m.sample((self.J,))
PSample ==
  /\ q_pc = "sample" /\ q_it < MaxPassIters
  /\ q_sample' \in [0..(PassJ - 1) ->
        [0..0 -> [0..0 -> PassEntry(q_mean[0][0], q_std[0][0])]]]
  /\ q_act_seq' = ActSeqOf(q_sample')
  /\ q_passed' = Empty /\ q_costs' = Empty /\ q_idx' = Empty /\ q_top' = Empty
  /\ q_pc' = "rollout"
  /\ UNCHANGED <<q_K, q_it, q_mean, q_std>>

\* rollouts = self._get_rollouts(act_seq, ...)
PRollout ==
  /\ q_pc = "rollout"
  /\ q_passed' = q_act_seq
  /\ q_costs' \in [0..(PassJ - 1) -> CostVals]
  /\ q_pc' = "select"
  /\ UNCHANGED <<q_K, q_it, q_mean, q_std, q_sample, q_act_seq, q_idx, q_top>>

\* top_costs, top_idx = costs.topk(self.K);
\* top_act_seq = torch.index_select(act_seq, dim=0, index=top_idx)
PSelect ==
  /\ q_pc = "select"
  /\ q_idx' \in TopK(q_costs, PassJ, q_K)
  /\ q_top' = IndexSelect(q_act_seq, q_idx')
  /\ q_pc' = "refit"
  /\ UNCHANGED <<q_K, q_it, q_mean, q_std, q_sample, q_act_seq, q_passed,
                 q_costs>>

\* std, mean = torch.std_mean(top_act_seq, dim=0)
PRefit ==
  /\ q_pc = "refit"
  /\ LET sm == StdMean(q_top, q_K, 1, 1)
     IN  q_std' = sm.std /\ q_mean' = sm.mean
  /\ q_it' = q_it + 1
  /\ q_pc' = "sample"
  /\ UNCHANGED <<q_K, q_sample, q_act_seq, q_passed, q_costs, q_idx, q_top>>

\* return mean[: self.R, :]
PReturn ==
  /\ q_pc = "sample" /\ q_it = MaxPassIters
  /\ q_pc' = "returned"
  /\ UNCHANGED <<q_K, q_it, q_mean, q_std, q_sample, q_act_seq, q_passed,
                 q_costs, q_idx, q_top>>

(* ---------------- checkpoints of MultiRobotPredictionTrainer ------------ *)

\* largest training step explored
MaxStep == 3
\* values of config.log_dir, as characters
LogDirs == {<<"d">>, <<".", "/", "d">>, <<"r", "_", "1">>}

SetMax(S) == CHOOSE x \in S : \A y \in S : y <= x

\* os.path.join(self._config.log_dir, f"ckpt_{self._step}.pt")
CkptPath(dir, step) ==
  dir \o <<"/", "c", "k", "p", "t", "_">> \o Digits(step) \o <<".", "p", "t">>

\* f.split(".")[0]: the part before the first "."
SplitDotFirst(f) ==
  LET dots == {i \in 1..Len(f) : f[i] = "."}
  IN  IF dots = {} THEN f
      ELSE SubSeq(f, 1, (CHOOSE i \in dots : \A j \in dots : i <= j) - 1)

\* name.rsplit("_", 1)[-1]: the part after the last "_"
RSplitUnderscoreLast(name) ==
  LET us == {i \in 1..Len(name) : name[i] = "_"}
  IN  IF us = {} THEN name
      ELSE SubSeq(name, SetMax(us) + 1, Len(name))

IsDigit(ch) == \E d \in 1..10 : DigitChars[d] = ch
DigitVal(ch) == (CHOOSE d \in 1..10 : DigitChars[d] = ch) - 1

RECURSIVE IntOf(_)
\* int(text) for a text of decimal digits
IntOf(text) ==
  IF Len(text) = 0 THEN 0
  ELSE IntOf(SubSeq(text, 1, Len(text) - 1)) * 10 + DigitVal(text[Len(text)])

\* int(text) raises ValueError unless text is a non-empty run of digits
IntParses(text) == Len(text) > 0 /\ \A i \in 1..Len(text) : IsDigit(text[i])

\* num of one file of the loop
FileNum(f) == RSplitUnderscoreLast(SplitDotFirst(f))

RECURSIVE ScanFiles(_, _, _)
\* for f in files: ... if num > max_step: max_step = num; path = f
\* (files as a set: with the strict comparison the order of the scan does
\* not change the outcome)
ScanFiles(files, max_step, path) ==
  IF files = {} THEN [path |-> path, max_step |-> max_step]
  ELSE LET f == CHOOSE x \in files : TRUE
           num == IntOf(FileNum(f))
       IN  IF num > max_step
             THEN ScanFiles(files \ {f}, num, f)
             ELSE ScanFiles(files \ {f}, max_step, path)

\* max_step = 0; path = None before the loop
ScanFromZero(files) == ScanFiles(files, 0, <<>>)

\* _load_checkpoint() with ckpt_path None: what it returns, for the *.pt
\* files of log_dir holding the given steps
LoadCheckpoint(dir, steps) ==
  LET files == {CkptPath(dir, st) : st \in steps}
      found == ScanFromZero(files)
  IN  IF files = {} THEN [kind |-> "random", step |-> 0]
      ELSE IF \E f \in files : ~IntParses(FileNum(f))
        THEN [kind |-> "ValueError", step |-> -1]
      ELSE IF found.path = <<>> THEN [kind |-> "random", step |-> 0]
      ELSE [kind |-> "loaded",
            step |-> CHOOSE st \in steps : CkptPath(dir, st) = found.path]

VARIABLES
  ck_dir,       \* self._config.log_dir
  ck_saved,     \* steps st for which ckpt_<st>.pt exists in log_dir
  ck_step,      \* self._step of the running trainer
  ck_res        \* the last _load_checkpoint(): its outcome and what it saw

ckptVars == <<ck_dir, ck_saved, ck_step, ck_res>>

NoLoad == [kind |-> "none", step |-> -1, saw |-> {}]

CkptOff ==
  /\ ck_dir = <<>> /\ ck_saved = {} /\ ck_step = 0 /\ ck_res = NoLoad

CkptInit ==
  /\ ck_dir \in LogDirs /\ ck_saved = {} /\ ck_step = 0 /\ ck_res = NoLoad

\* self._step += 1 in the training loop
CkTrain ==
  /\ ck_step < MaxStep
  /\ ck_step' = ck_step + 1
  /\ UNCHANGED <<ck_dir, ck_saved, ck_res>>

\* self._save_checkpoint(): torch.save(data, path) with data["step"] the
\* step in the name
CkSave ==
  /\ ck_saved' = ck_saved \cup {ck_step}
  /\ UNCHANGED <<ck_dir, ck_step, ck_res>>

\* a fresh trainer: self._step = self._load_checkpoint()
CkLoad ==
  /\ LET r == LoadCheckpoint(ck_dir, ck_saved)
     IN  /\ ck_res' = [kind |-> r.kind, step |-> r.step, saw |-> ck_saved]
         /\ ck_step' = IF r.kind = "ValueError" THEN ck_step ELSE r.step
  /\ UNCHANGED <<ck_dir, ck_saved>>

(* ---------------- FetchPushEnv: goal and background rendering ----------- *)

\* joint positions and velocities are drawn from 0..MaxQ
MaxQ == 1
\* obj_pose = [100, 0, 0, 1, 0, 0, 0]: the block moved out of the scene
OutOfScene == 100
\* for _ in range(10): self.sim.step()
SettleSteps == 10
Qs == 0..MaxQ

VARIABLES
  f_pc,         \* position inside _sample_goal / _get_background_img
  f_call,       \* "goal" (_sample_goal) or "background" (_get_background_img)
  f_sim,        \* robot and object joint position, joint velocity
  f_mocap,      \* the robot0:mocap target
  f_site,       \* sim.model.site_pos of target0
  f_init,       \* local init_state
  f_k,          \* sim.step() calls made in the loop
  f_entry,      \* history: the simulator state when the call began
  f_moved       \* history: the state differed from f_entry during the call

fetchVars == <<f_pc, f_call, f_sim, f_mocap, f_site, f_init, f_k, f_entry,
               f_moved>>

SimStateAt(r, o, v) == [rob |-> r, obj |-> o, vel |-> v]

FetchOff ==
  /\ f_pc = "off" /\ f_call = "none" /\ f_sim = SimStateAt(0, 0, 0)
  /\ f_mocap = 0 /\ f_site = 0 /\ f_init = SimStateAt(0, 0, 0) /\ f_k = 0
  /\ f_entry = SimStateAt(0, 0, 0) /\ f_moved = FALSE

FetchInit ==
  /\ f_pc = "idle" /\ f_call = "none"
  /\ \E r \in Qs, o \in Qs : f_sim = SimStateAt(r, o, 0)
  /\ f_mocap = f_sim.rob /\ f_site = 0 /\ f_init = f_sim /\ f_k = 0
  /\ f_entry = f_sim /\ f_moved = FALSE

\* self.get_state(): the joint positions and velocities at the time of call
StateGot(cur) == cur

StateLeftAsIs(init, cur) == cur

\* self.set_state(init_state): the simulator is given the saved state
StateAfterSet(init, cur) == init

\* init_state = self.get_state(), first statement of either method
FCall ==
  /\ f_pc \in {"idle", "returned"}
  /\ f_call' \in {"goal", "background"}
  /\ f_init' = StateGot(f_sim)
  /\ f_entry' = f_sim
  /\ f_moved' = FALSE
  /\ f_k' = 0
  /\ f_pc' = "move_obj"
  /\ UNCHANGED <<f_sim, f_mocap, f_site>>

\* self.sim.data.set_joint_qpos("object0:joint", obj_pose): to the goal, or
\* out of the scene; reset_mocap_welds; self.sim.forward()
FMoveObject ==
  /\ f_pc = "move_obj"
  /\ \E o \in Qs :
       f_sim' = [f_sim EXCEPT !.obj = IF f_call = "goal" THEN o ELSE OutOfScene]
  /\ f_moved' = (f_moved \/ f_sim' # f_entry)
  /\ f_pc' = "move_mocap"
  /\ UNCHANGED <<f_call, f_mocap, f_site, f_init, f_k, f_entry>>

\* self.sim.data.set_mocap_pos("robot0:mocap", gripper_target)
FMoveMocap ==
  /\ f_pc = "move_mocap"
  /\ f_mocap' \in Qs
  /\ f_pc' = "settle"
  /\ UNCHANGED <<f_call, f_sim, f_site, f_init, f_k, f_entry, f_moved>>

\* one self.sim.step() of the loop: the robot follows the mocap target
FSettle ==
  /\ f_pc = "settle" /\ f_k < SettleSteps
  /\ \E v \in Qs : f_sim' = [f_sim EXCEPT !.rob = f_mocap, !.vel = v]
  /\ f_moved' = (f_moved \/ f_sim' # f_entry)
  /\ f_k' = f_k + 1
  /\ UNCHANGED <<f_pc, f_call, f_mocap, f_site, f_init, f_entry>>

\* after the loop: _sample_goal moves the target site to the object
\* (self.sim.model.site_pos[site_id] = ...), both render
FRender ==
  /\ f_pc = "settle" /\ f_k = SettleSteps
  /\ f_site' = IF f_call = "goal" THEN f_sim.obj ELSE f_site
  /\ f_pc' = "restore"
  /\ UNCHANGED <<f_call, f_sim, f_mocap, f_init, f_k, f_entry, f_moved>>

\* self.set_state(init_state); reset_mocap2body_xpos(self.sim);
\* reset_mocap_welds(self.sim); return
FRestore ==
  /\ f_pc = "restore"
  /\ f_sim' = StateAfterSet(f_init, f_sim)
  /\ f_mocap' = f_sim'.rob
  /\ f_pc' = "returned"
  /\ UNCHANGED <<f_call, f_site, f_init, f_k, f_entry, f_moved>>

\* the environment is stepped between two such calls
FEnvStep ==
  /\ f_pc \in {"idle", "returned"}
  /\ \E r \in Qs, o \in Qs, v \in Qs : f_sim' = SimStateAt(r, o, v)
  /\ f_mocap' = f_sim'.rob
  /\ f_pc' = "idle"
  /\ UNCHANGED <<f_call, f_site, f_init, f_k, f_entry, f_moved>>

(* ---------------- FetchPushEnv: the inpaint-blur cost -------------------- *)

\* image distances (np.linalg.norm) are drawn from 0..MaxDist
MaxDist == 2
\* --unblur_cost_scale, type=float, default 3, any sign accepted
CostScales == {-1, 0, 3}

VARIABLES
  b_type,       \* self.reward_type
  b_scale,      \* self._unblur_cost_scale
  b_flag,       \* self._use_unblur: "undefined" until the first reset()
  b_switched,   \* history: the flag was switched since the last reset()
  b_op,         \* the last operation on the environment
  b_ret         \* what the last weighted_cost call returned, and when

blurVars == <<b_type, b_scale, b_flag, b_switched, b_op, b_ret>>

NoCost == [kind |-> "none", val |-> 0, blur |-> 0, unblur |-> 0, sw |-> FALSE]

BlurOff ==
  /\ b_type = "none" /\ b_scale = 0 /\ b_flag = "undefined"
  /\ b_switched = FALSE /\ b_op = "off" /\ b_ret = NoCost

BlurInit ==
  /\ b_type \in {"inpaint-blur", "inpaint"}
  /\ b_scale \in CostScales
  /\ b_flag = "undefined" /\ b_switched = FALSE /\ b_op = "init"
  /\ b_ret = NoCost

WeightedCostBlurOnly(type, flag, scale, bl, ub) ==
  IF type = "inpaint-blur" THEN [kind |-> "blur", val |-> 0 - bl]
  ELSE [kind |-> "plain", val |-> 0 - ub]

\* weighted_cost for the inpainting reward types: d = blur_cost, replaced by
\* self._unblur_cost_scale * unblur_cost if self._use_unblur; return -d
WeightedCost(type, flag, scale, bl, ub) ==
  IF type = "inpaint-blur"
  THEN IF flag = "True"
       THEN [kind |-> "unblur", val |-> 0 - (scale * ub)]
       ELSE [kind |-> "blur", val |-> 0 - bl]
  ELSE [kind |-> "plain", val |-> 0 - ub]

\* reset(): obs = super().reset(); self._use_unblur = False
BReset ==
  /\ b_flag' = "False"
  /\ b_switched' = FALSE
  /\ b_op' = "reset"
  /\ UNCHANGED <<b_type, b_scale, b_ret>>

\* the planner sets env._use_unblur = True at the configured horizon offset
BSwitch ==
  /\ b_op # "switch"
  /\ b_flag' = "True"
  /\ b_switched' = TRUE
  /\ b_op' = "switch"
  /\ UNCHANGED <<b_type, b_scale, b_ret>>

\* a step: compute_reward -> weighted_cost(achieved_goal, goal, info)
BCost ==
  /\ b_type = "inpaint-blur" => b_flag # "undefined"
  /\ \E bl \in 0..MaxDist, ub \in 0..MaxDist :
       b_ret' = [kind |-> WeightedCost(b_type, b_flag, b_scale, bl, ub).kind,
                 val |-> WeightedCost(b_type, b_flag, b_scale, bl, ub).val,
                 blur |-> bl, unblur |-> ub, sw |-> b_switched]
  /\ b_op' = "cost"
  /\ UNCHANGED <<b_type, b_scale, b_flag, b_switched>>

\* weighted_cost before any reset(): self._use_unblur does not exist yet
BCostRaise ==
  /\ b_type = "inpaint-blur" /\ b_flag = "undefined"
  /\ b_op # "raised"
  /\ b_ret' = [NoCost EXCEPT !.kind = "AttributeError"]
  /\ b_op' = "raised"
  /\ UNCHANGED <<b_type, b_scale, b_flag, b_switched>>

(* ---------------- create_demo_dataset: the worker processes -------------- *)

\* num_workers is drawn from 1..MaxWorkers
MaxWorkers == 5

VARIABLES
  p_n,          \* num_workers
  p_pc,         \* position inside create_demo_dataset
  p_i,          \* index of the running for loop
  p_ps,         \* ps: the Process objects, each with its rank and its state
  p_inline      \* generate_demos run by the caller: its rank and its state

poolVars == <<p_n, p_pc, p_i, p_ps, p_inline>>

NoInline == [rank |-> 0 - 1, st |-> "none"]

PoolOff ==
  /\ p_n = 0 /\ p_pc = "off" /\ p_i = 0 /\ p_ps = <<>> /\ p_inline = NoInline

\* os.makedirs(config.demo_dir, exist_ok=True) done, before the branch
PoolInit ==
  /\ p_n \in 1..MaxWorkers
  /\ p_pc = "branch" /\ p_i = 0 /\ p_ps = <<>> /\ p_inline = NoInline

JoinReturnsAtOnce(st) == TRUE

\* p.join() returns once the process has terminated
JoinReturns(st) == st = "done"

\* if num_workers == 1: generate_demos(0, ...) in the calling process
PInline ==
  /\ p_pc = "branch" /\ p_n = 1
  /\ p_inline' = [rank |-> 0, st |-> "running"]
  /\ p_pc' = "inline"
  /\ UNCHANGED <<p_n, p_i, p_ps>>

\* generate_demos(0, ...) returns, and create_demo_dataset with it
PInlineReturn ==
  /\ p_pc = "inline"
  /\ p_inline' = [p_inline EXCEPT !.st = "done"]
  /\ p_pc' = "returned"
  /\ UNCHANGED <<p_n, p_i, p_ps>>

\* else: ps = []; for i in range(num_workers): p = Process(...); ps.append(p)
PCreate ==
  /\ \/ p_pc = "branch" /\ p_n # 1
     \/ p_pc = "create"
  /\ p_i < p_n
  /\ p_ps' = Append(p_ps, [rank |-> p_i, st |-> "created"])
  /\ p_i' = IF p_i + 1 = p_n THEN 0 ELSE p_i + 1
  /\ p_pc' = IF p_i + 1 = p_n THEN "start" ELSE "create"
  /\ UNCHANGED <<p_n, p_inline>>

\* for p in ps: p.start()
PStart ==
  /\ p_pc = "start" /\ p_i < Len(p_ps)
  /\ p_ps' = [p_ps EXCEPT ![p_i + 1].st = "running"]
  /\ p_i' = IF p_i + 1 = Len(p_ps) THEN 0 ELSE p_i + 1
  /\ p_pc' = IF p_i + 1 = Len(p_ps) THEN "join" ELSE "start"
  /\ UNCHANGED <<p_n, p_inline>>

\* a started process finishes generate_demos(rank, ...) and terminates
PWorkerExit ==
  /\ \E k \in 1..Len(p_ps) :
       /\ p_ps[k].st = "running"
       /\ p_ps' = [p_ps EXCEPT ![k].st = "done"]
  /\ UNCHANGED <<p_n, p_pc, p_i, p_inline>>

\* for p in ps: p.join(); the function returns after the last one
PJoin ==
  /\ p_pc = "join" /\ p_i < Len(p_ps)
  /\ JoinReturns(p_ps[p_i + 1].st)
  /\ p_i' = p_i + 1
  /\ p_pc' = IF p_i + 1 = Len(p_ps) THEN "returned" ELSE "join"
  /\ UNCHANGED <<p_n, p_ps, p_inline>>

(* ---------------- JointPosDataset.__getitem__: the window --------------- *)

\* config.video_length is drawn from 1..MaxVideoLength
MaxVideoLength == 3
\* hf["frames"].shape[0] is drawn from 0..MaxEpLen
MaxEpLen == 4

VARIABLES
  j_vl,         \* self._video_length
  j_pc,         \* position inside __getitem__
  j_ep,         \* ep_len: rows of frames, states, mask and qpos in the file
  j_aT,         \* rows of the actions dataset in the file
  j_adim,       \* the branch of _load_actions the file's action width takes
  j_start,      \* start
  j_end,        \* end
  j_lens,       \* lengths of the loaded states, actions, masks and qpos
  j_err         \* the exception that ended the call

dataVars == <<j_vl, j_pc, j_ep, j_aT, j_adim, j_start, j_end, j_lens, j_err>>

NoLens == [states |-> 0, actions |-> 0, masks |-> 0, qpos |-> 0]

DataOff ==
  /\ j_vl = 0 /\ j_pc = "off" /\ j_ep = 0 /\ j_aT = 0 /\ j_adim = "none"
  /\ j_start = 0 /\ j_end = 0 /\ j_lens = NoLens /\ j_err = "none"

DataInit ==
  /\ j_vl \in 1..MaxVideoLength
  /\ j_pc = "idle" /\ j_ep = 0 /\ j_aT = 0 /\ j_adim = "none"
  /\ j_start = 0 /\ j_end = 0 /\ j_lens = NoLens /\ j_err = "none"

\* a slice bound of Python: negative counts from the end, then clamped to 0..n
SliceBound(n, i) ==
  IF i < 0 THEN (IF n + i < 0 THEN 0 ELSE n + i)
  ELSE (IF i > n THEN n ELSE i)

\* len(x[a:b]) for x of n rows
SliceLen(n, a, b) ==
  IF SliceBound(n, b) > SliceBound(n, a)
  THEN SliceBound(n, b) - SliceBound(n, a)
  ELSE 0

RandintInclusive(lo, hi) == lo..hi

\* RandomState.randint(lo, hi): an integer of [lo, hi)
Randint(lo, hi) == lo..(hi - 1)

\* with h5py.File(hdf5_path, "r") as hf: ep_len = hf["frames"].shape[0]
JOpen ==
  /\ j_pc \in {"idle", "returned"}
  /\ j_ep' \in 0..MaxEpLen
  /\ j_aT' \in {j_ep', j_ep' - 1} \cap Nat
  /\ j_adim' \in {"same", "imputed", "other"}
  /\ j_start' = 0 /\ j_end' = 0 /\ j_lens' = NoLens /\ j_err' = "none"
  /\ j_pc' = "opened"
  /\ UNCHANGED j_vl

\* assert ep_len >= self._video_length failing
JTooShort ==
  /\ j_pc = "opened" /\ ~(j_ep >= j_vl)
  /\ j_err' = "AssertionError"
  /\ j_pc' = "raised"
  /\ UNCHANGED <<j_vl, j_ep, j_aT, j_adim, j_start, j_end, j_lens>>

\* start = 0; end = ep_len; if ep_len > video_length: a random start
JWindow ==
  /\ j_pc = "opened" /\ j_ep >= j_vl
  /\ IF j_ep > j_vl
     THEN /\ j_start' \in Randint(0, (j_ep - j_vl) + 1)
          /\ j_end' = j_start' + j_vl
     ELSE /\ j_start' = 0
          /\ j_end' = j_ep
  /\ j_pc' = "windowed"
  /\ UNCHANGED <<j_vl, j_ep, j_aT, j_adim, j_lens, j_err>>

\* states, masks, qpos = hf[...][start:end];
\* actions = self._load_actions(hf, low, high, start, end - 1)
JLoad ==
  /\ j_pc = "windowed" /\ j_adim \in {"same", "imputed"}
  /\ j_lens' = [states |-> SliceLen(j_ep, j_start, j_end),
                actions |-> SliceLen(j_aT, j_start, j_end - 1),
                masks |-> SliceLen(j_ep, j_start, j_end),
                qpos |-> SliceLen(j_ep, j_start, j_end)]
  /\ j_pc' = "loaded"
  /\ UNCHANGED <<j_vl, j_ep, j_aT, j_adim, j_start, j_end, j_err>>

\* _load_actions: raise ValueError(f"file adim {adim}, target adim ...")
JLoadRaise ==
  /\ j_pc = "windowed" /\ j_adim = "other"
  /\ j_err' = "ValueError"
  /\ j_pc' = "raised"
  /\ UNCHANGED <<j_vl, j_ep, j_aT, j_adim, j_start, j_end, j_lens>>

\* assert len(states) == len(actions) + 1 == len(masks) == len(qpos)
JShapes ==
  /\ j_pc = "loaded"
  /\ IF /\ j_lens.states = j_lens.actions + 1
        /\ j_lens.actions + 1 = j_lens.masks
        /\ j_lens.masks = j_lens.qpos
     THEN j_pc' = "returned" /\ j_err' = "none"
     ELSE j_pc' = "raised" /\ j_err' = "AssertionError: shapes"
  /\ UNCHANGED <<j_vl, j_ep, j_aT, j_adim, j_start, j_end, j_lens>>

(* ---------------------------- specifications --------------------------- *)

vars == <<cemVars, simVars, gifVars, reproVars, driverVars, clientVars, workerVars, passVars, ckptVars, fetchVars, blurVars, poolVars, dataVars>>

\* everything outside the optimizer (DemoCEMPolicy.get_action)
notCem == <<simVars, gifVars, reproVars, driverVars, clientVars, workerVars, passVars, ckptVars, fetchVars, blurVars, poolVars, dataVars>>
\* everything outside the shared simulator
notSim == <<cemVars, gifVars, reproVars, driverVars, clientVars, workerVars, passVars, ckptVars, fetchVars, blurVars, poolVars, dataVars>>
\* everything outside the debug gifs
notGif == <<cemVars, simVars, reproVars, driverVars, clientVars, workerVars, passVars, ckptVars, fetchVars, blurVars, poolVars, dataVars>>
\* everything outside the two planning runs
notRepro == <<cemVars, simVars, gifVars, driverVars, clientVars, workerVars, passVars, ckptVars, fetchVars, blurVars, poolVars, dataVars>>
\* everything outside the closed-loop driver
notDriver == <<cemVars, simVars, gifVars, reproVars, clientVars, workerVars, passVars, ckptVars, fetchVars, blurVars, poolVars, dataVars>>
\* everything outside the Franka control client
notClient == <<cemVars, simVars, gifVars, reproVars, driverVars, workerVars, passVars, ckptVars, fetchVars, blurVars, poolVars, dataVars>>
\* everything outside the demo-generation workers
notWorker == <<cemVars, simVars, gifVars, reproVars, driverVars, clientVars, passVars, ckptVars, fetchVars, blurVars, poolVars, dataVars>>
\* everything outside the candidates of one planning call
notPass == <<cemVars, simVars, gifVars, reproVars, driverVars, clientVars, workerVars, ckptVars, fetchVars, blurVars, poolVars, dataVars>>
\* everything outside the trainer's checkpoints
notCkpt == <<cemVars, simVars, gifVars, reproVars, driverVars, clientVars, workerVars, passVars, fetchVars, blurVars, poolVars, dataVars>>
\* everything outside FetchPushEnv's simulator
notFetch == <<cemVars, simVars, gifVars, reproVars, driverVars, clientVars, workerVars, passVars, ckptVars, blurVars, poolVars, dataVars>>
\* everything outside FetchPushEnv's inpaint-blur cost
notBlur == <<cemVars, simVars, gifVars, reproVars, driverVars, clientVars, workerVars, passVars, ckptVars, fetchVars, poolVars, dataVars>>
\* everything outside create_demo_dataset's processes
notPool == <<cemVars, simVars, gifVars, reproVars, driverVars, clientVars, workerVars, passVars, ckptVars, fetchVars, blurVars, dataVars>>
\* everything outside JointPosDataset.__getitem__
notData == <<cemVars, simVars, gifVars, reproVars, driverVars, clientVars, workerVars, passVars, ckptVars, fetchVars, blurVars, poolVars>>

\* the optimizer (DemoCEMPolicy.get_action) alone; the other components stay at rest
Init == CemInit /\ SimOff /\ GifOff /\ ReproOff /\ DriverOff /\ ClientOff /\ WorkerOff /\ PassOff /\ CkptOff /\ FetchOff /\ BlurOff /\ PoolOff /\ DataOff

Next ==
  \/ Construct /\ UNCHANGED notCem
  \/ GetAction /\ UNCHANGED notCem
  \/ Sample /\ UNCHANGED notCem
  \/ SampleRaise /\ UNCHANGED notCem
  \/ Evaluate /\ UNCHANGED notCem
  \/ EvaluateRaise /\ UNCHANGED notCem
  \/ Select /\ UNCHANGED notCem
  \/ SelectRaise /\ UNCHANGED notCem
  \/ Refit /\ UNCHANGED notCem
  \/ Done /\ UNCHANGED notCem
  \/ DoneRaise /\ UNCHANGED notCem

Spec == Init /\ [][Next]_vars

\* the shared simulator alone; the other components stay at rest
SimSpecInit == SimInit /\ CemInit /\ GifOff /\ ReproOff /\ DriverOff /\ ClientOff /\ WorkerOff /\ PassOff /\ CkptOff /\ FetchOff /\ BlurOff /\ PoolOff /\ DataOff

SimNext ==
  \/ CompareBegin /\ UNCHANGED notSim
  \/ PlanRolloutsBegin /\ UNCHANGED notSim
  \/ GenBegin /\ UNCHANGED notSim
  \/ GenStep /\ UNCHANGED notSim
  \/ GenEnd /\ UNCHANGED notSim
  \/ GenRaise /\ UNCHANGED notSim
  \/ CompareModel /\ UNCHANGED notSim
  \/ CompareModelRaise /\ UNCHANGED notSim
  \/ CompareGif /\ UNCHANGED notSim
  \/ CompareGifRaise /\ UNCHANGED notSim
  \/ CompareRestore /\ UNCHANGED notSim

SimSpec == SimSpecInit /\ [][SimNext]_vars

\* the debug gifs alone; the other components stay at rest
GifSpecInit == GifOff /\ CemInit /\ SimOff /\ ReproOff /\ DriverOff /\ ClientOff /\ WorkerOff /\ PassOff /\ CkptOff /\ FetchOff /\ BlurOff /\ PoolOff /\ DataOff

GifNext ==
  \/ GifCall /\ UNCHANGED notGif
  \/ GifCandidate /\ UNCHANGED notGif
  \/ GifIndexError /\ UNCHANGED notGif
  \/ GifFrame /\ UNCHANGED notGif
  \/ GifWrite /\ UNCHANGED notGif
  \/ GifIOError /\ UNCHANGED notGif
  \/ GifDone /\ UNCHANGED notGif

GifSpec == GifSpecInit /\ [][GifNext]_vars

\* the two planning runs alone; the other components stay at rest
ReproSpecInit == ReproInit /\ CemInit /\ SimOff /\ GifOff /\ DriverOff /\ ClientOff /\ WorkerOff /\ PassOff /\ CkptOff /\ FetchOff /\ BlurOff /\ PoolOff /\ DataOff

ReproNext ==
  \/ ReproIterateAny /\ UNCHANGED notRepro
  \/ ReproRaiseAny /\ UNCHANGED notRepro
  \/ ReproReturnAny /\ UNCHANGED notRepro
  \/ OtherDrawAny /\ UNCHANGED notRepro

ReproSpec == ReproSpecInit /\ [][ReproNext]_vars

\* the closed-loop driver alone; the other components stay at rest
DriverSpecInit == DriverInit /\ CemInit /\ SimOff /\ GifOff /\ ReproOff /\ ClientOff /\ WorkerOff /\ PassOff /\ CkptOff /\ FetchOff /\ BlurOff /\ PoolOff /\ DataOff

DriverNext ==
  \/ DPlanBegin /\ UNCHANGED notDriver
  \/ DPlanIterate /\ UNCHANGED notDriver
  \/ DPlanReturn /\ UNCHANGED notDriver
  \/ DPlanRaise /\ UNCHANGED notDriver
  \/ DExecQuery /\ UNCHANGED notDriver
  \/ DExecMove /\ UNCHANGED notDriver
  \/ DGetState /\ UNCHANGED notDriver
  \/ DEndpointTimeout /\ UNCHANGED notDriver
  \/ DFinish /\ UNCHANGED notDriver

DriverSpec == DriverSpecInit /\ [][DriverNext]_vars

\* the Franka control client alone; the other components stay at rest
ClientSpecInit == ClientInit /\ CemInit /\ SimOff /\ GifOff /\ ReproOff /\ DriverOff /\ WorkerOff /\ PassOff /\ CkptOff /\ FetchOff /\ BlurOff /\ PoolOff /\ DataOff

ClientNext ==
  \/ CCall /\ UNCHANGED notClient
  \/ CWaitForServer /\ UNCHANGED notClient
  \/ CSendGoal /\ UNCHANGED notClient
  \/ CWaitForResult /\ UNCHANGED notClient
  \/ CGetResult /\ UNCHANGED notClient
  \/ SrvFinish /\ UNCHANGED notClient
  \/ SrvStart /\ UNCHANGED notClient
  \/ SrvStop /\ UNCHANGED notClient

ClientSpec == ClientSpecInit /\ [][ClientNext]_vars

\* the demo-generation workers alone; the other components stay at rest
WorkerSpecInit == WorkerInit /\ CemInit /\ SimOff /\ GifOff /\ ReproOff /\ DriverOff /\ ClientOff /\ PassOff /\ CkptOff /\ FetchOff /\ BlurOff /\ PoolOff /\ DataOff

WorkerNext ==
  \/ WStartAny /\ UNCHANGED notWorker
  \/ WTrajectoryAny /\ UNCHANGED notWorker
  \/ WAfterLoopAny /\ UNCHANGED notWorker
  \/ WStatsAny /\ UNCHANGED notWorker

WorkerSpec == WorkerSpecInit /\ [][WorkerNext]_vars

\* the candidates of one planning call alone; the other components stay at rest
PassSpecInit == PassInit /\ CemInit /\ SimOff /\ GifOff /\ ReproOff /\ DriverOff /\ ClientOff /\ WorkerOff /\ CkptOff /\ FetchOff /\ BlurOff /\ PoolOff /\ DataOff

PassNext ==
  \/ PSample /\ UNCHANGED notPass
  \/ PRollout /\ UNCHANGED notPass
  \/ PSelect /\ UNCHANGED notPass
  \/ PRefit /\ UNCHANGED notPass
  \/ PReturn /\ UNCHANGED notPass

PassSpec == PassSpecInit /\ [][PassNext]_vars

\* the trainer's checkpoints alone; the other components stay at rest
CkptSpecInit == CkptInit /\ CemInit /\ SimOff /\ GifOff /\ ReproOff /\ DriverOff /\ ClientOff /\ WorkerOff /\ PassOff /\ FetchOff /\ BlurOff /\ PoolOff /\ DataOff

CkptNext ==
  \/ CkTrain /\ UNCHANGED notCkpt
  \/ CkSave /\ UNCHANGED notCkpt
  \/ CkLoad /\ UNCHANGED notCkpt

CkptSpec == CkptSpecInit /\ [][CkptNext]_vars

\* FetchPushEnv's simulator alone; the other components stay at rest
FetchSpecInit == FetchInit /\ CemInit /\ SimOff /\ GifOff /\ ReproOff /\ DriverOff /\ ClientOff /\ WorkerOff /\ PassOff /\ CkptOff /\ BlurOff /\ PoolOff /\ DataOff

FetchNext ==
  \/ FCall /\ UNCHANGED notFetch
  \/ FMoveObject /\ UNCHANGED notFetch
  \/ FMoveMocap /\ UNCHANGED notFetch
  \/ FSettle /\ UNCHANGED notFetch
  \/ FRender /\ UNCHANGED notFetch
  \/ FRestore /\ UNCHANGED notFetch
  \/ FEnvStep /\ UNCHANGED notFetch

FetchSpec == FetchSpecInit /\ [][FetchNext]_vars

\* FetchPushEnv's inpaint-blur cost alone; the other components stay at rest
BlurSpecInit == BlurInit /\ CemInit /\ SimOff /\ GifOff /\ ReproOff /\ DriverOff /\ ClientOff /\ WorkerOff /\ PassOff /\ CkptOff /\ FetchOff /\ PoolOff /\ DataOff

BlurNext ==
  \/ BReset /\ UNCHANGED notBlur
  \/ BSwitch /\ UNCHANGED notBlur
  \/ BCost /\ UNCHANGED notBlur
  \/ BCostRaise /\ UNCHANGED notBlur

BlurSpec == BlurSpecInit /\ [][BlurNext]_vars

\* create_demo_dataset's processes alone; the other components stay at rest
PoolSpecInit == PoolInit /\ CemInit /\ SimOff /\ GifOff /\ ReproOff /\ DriverOff /\ ClientOff /\ WorkerOff /\ PassOff /\ CkptOff /\ FetchOff /\ BlurOff /\ DataOff

PoolNext ==
  \/ PInline /\ UNCHANGED notPool
  \/ PInlineReturn /\ UNCHANGED notPool
  \/ PCreate /\ UNCHANGED notPool
  \/ PStart /\ UNCHANGED notPool
  \/ PWorkerExit /\ UNCHANGED notPool
  \/ PJoin /\ UNCHANGED notPool

PoolSpec == PoolSpecInit /\ [][PoolNext]_vars

\* JointPosDataset.__getitem__ alone; the other components stay at rest
DataSpecInit == DataInit /\ CemInit /\ SimOff /\ GifOff /\ ReproOff /\ DriverOff /\ ClientOff /\ WorkerOff /\ PassOff /\ CkptOff /\ FetchOff /\ BlurOff /\ PoolOff

DataNext ==
  \/ JOpen /\ UNCHANGED notData
  \/ JTooShort /\ UNCHANGED notData
  \/ JWindow /\ UNCHANGED notData
  \/ JLoad /\ UNCHANGED notData
  \/ JLoadRaise /\ UNCHANGED notData
  \/ JShapes /\ UNCHANGED notData

DataSpec == DataSpecInit /\ [][DataNext]_vars

(* ------------------------------- claims ------------------------------- *)
\* topk has returned in the current iteration: the elite set is in top_idx
Selected == pc = "refit"
\* a planning call has ended, by a return or by an exception
Ended == pc \in {"returned", "raised"}
\* a configuration the constructor is meant to accept
ValidConfig == policy.K <= policy.J /\ policy.R <= policy.L
Elite == Range(top_idx)
LeftOut == (0..(policy.J - 1)) \ Elite

\* C1, as claimed (here for cost vectors without NaN already): the elite set
\* is the K candidates of highest reward and ties are broken by ascending
\* candidate index (first-seen wins), both in which candidates are taken and
\* in the order they are listed.
C1_StableTopK ==
  (Selected /\ \A j \in DOMAIN costs : IsFinite(costs[j])) =>
    /\ \A s \in Elite : \A u \in LeftOut :
         \/ Before(costs[s], costs[u])
         \/ (~Before(costs[u], costs[s]) /\ s < u)
    /\ \A i, j \in DOMAIN top_idx : i < j =>
         \/ Before(costs[top_idx[i]], costs[top_idx[j]])
         \/ (~Before(costs[top_idx[j]], costs[top_idx[i]])
             /\ top_idx[i] < top_idx[j])

\* C1, amended: the elite set is K distinct candidates and no candidate left
\* out has a strictly higher reward than a chosen one (a chosen candidate is
\* NaN, or the left-out one is a number not above it); which of several
\* equal-reward candidates is chosen is not determined.
C1_EliteAreTopK ==
  Selected =>
    /\ Cardinality(Elite) = policy.K
    /\ \A s \in Elite : \A u \in LeftOut :
         \/ IsNaN(costs[s])
         \/ (IsFinite(costs[u]) /\ ~Less(costs[s], costs[u]))

\* C1 witness: a selection with K < J that had to rank two different rewards
C1_Witness ==
  /\ Selected
  /\ policy.K < policy.J
  /\ \E s \in Elite : \E u \in LeftOut :
       IsFinite(costs[s]) /\ IsFinite(costs[u]) /\ Less(costs[u], costs[s])

\* the population statistics of a K x L x A tensor: divisor K
PopulationStdMean(t, K, L, A) ==
  [std  |-> [l \in 0..(L - 1) |-> [a \in 0..(A - 1) |->
               DivInt(SqDev(t, K, l, a), K)]],
   mean |-> [l \in 0..(L - 1) |-> [a \in 0..(A - 1) |-> MeanOf(t, K, l, a)]]]

\* C2, as claimed: every REFIT step sets mean to the elementwise mean of the
\* K elite candidates and std to their population standard deviation
\* (divisor K), so that K = 1 gives std = 0 everywhere.
C2_RefitPopulationStd ==
  [][(pc = "refit" /\ pc' = "loop") =>
       LET pop == PopulationStdMean(IndexSelect(act_seq, top_idx), policy.K,
                                    policy.L, policy.A)
       IN  mean' = pop.mean /\ std' = pop.std]_vars

\* C3, as claimed: with a valid configuration a planning call makes one
\* rollout call per iteration, in the order SAMPLE, EVALUATE, SELECT, REFIT,
\* and ends only by returning, after exactly I iterations, mean[:R, :] with R
\* rows and two logs of I entries each.
C3_CallRunsIIterations ==
  ValidConfig =>
    /\ pc \in {"loop", "evaluate"} => nrollouts = it
    /\ pc \in {"select", "refit"} => nrollouts = it + 1
    /\ Ended =>
         /\ pc = "returned"
         /\ it = policy.I /\ nrollouts = policy.I
         /\ DOMAIN ret[1] = 0..(policy.R - 1)
         /\ Len(ret[2]) = policy.I /\ Len(ret[3]) = policy.I

\* C4: right after INIT of any planning call, the first or a later one on
\* the same policy, the belief is mean = 0, std = 1 of shape (L, A) and the
\* logs, candidates and elite set are empty: nothing of an earlier call is left.
C4_InitResetsBelief ==
  (pc = "loop" /\ it = 0) =>
    /\ mean = Zeros(policy.L, policy.A)
    /\ std = Ones(policy.L, policy.A)
    /\ gt_costs_data = Empty /\ metric_costs_data = Empty
    /\ act_seq = Empty /\ costs = Empty /\ top_idx = Empty
    /\ ~rollouts.bound /\ nrollouts = 0
    /\ ret = Empty /\ err = "none"

\* C4 witness: a later planning call on the same policy has just done INIT
C4_Witness == recalled /\ pc = "loop" /\ it = 0 /\ policy.I > 0

\* C5, as claimed: with I = 0 the planning call returns the all-zero first R
\* rows of the initial mean, without any rollout call.
C5_ZeroIterationsReturnZeros ==
  (policy.I = 0 /\ Ended) =>
    /\ pc = "returned"
    /\ nrollouts = 0
    /\ ret[1] = Prefix(Zeros(policy.L, policy.A), policy.R, policy.L)

\* C6, as claimed: no policy object exists with horizon L < replan count R
\* or with elite count K > candidate count J.
C6_ConstructorRejects == pc # "new" => ValidConfig

\* C7, as claimed: SELECT never puts a NaN-cost candidate in the elite set
\* while leaving out a candidate of finite cost.
C7_NaNNeverElite ==
  Selected =>
    ~\E s \in Elite : \E u \in LeftOut :
        IsNaN(costs[s]) /\ IsFinite(costs[u])

\* C8, as claimed: from an iteration in which every candidate's cost is NaN
\* the planning call goes on only by raising; the belief is not refit.
C8_DegenerateCostsSurfaced ==
  [][(Selected /\ \A j \in DOMAIN costs : ~IsFinite(costs[j])) =>
       (pc' = "raised" /\ mean' = mean /\ std' = std)]_vars

\* C9, as claimed: throughout a planning call with 1 <= K <= J the belief has
\* shape (L, A), every std entry is a number >= 0 and the candidates, once
\* sampled, have shape (J, L, A).
C9_BeliefWellFormed ==
  (pc \in {"loop", "evaluate", "select", "refit"} /\ policy.K <= policy.J) =>
    /\ DOMAIN mean = 0..(policy.L - 1) /\ DOMAIN std = 0..(policy.L - 1)
    /\ \A l \in 0..(policy.L - 1) :
         /\ DOMAIN mean[l] = 0..(policy.A - 1)
         /\ DOMAIN std[l] = 0..(policy.A - 1)
         /\ \A a \in 0..(policy.A - 1) :
              IsFinite(std[l][a]) /\ std[l][a].n >= 0
    /\ pc \in {"evaluate", "select", "refit"} =>
         /\ DOMAIN act_seq = 0..(policy.J - 1)
         /\ \A j \in 0..(policy.J - 1) :
              /\ DOMAIN act_seq[j] = 0..(policy.L - 1)
              /\ \A l \in 0..(policy.L - 1) :
                   DOMAIN act_seq[j][l] = 0..(policy.A - 1)

C11_RolloutFailureFatal ==
  err = "RolloutError" =>
    /\ pc = "raised"
    /\ ret = Empty
    /\ it < policy.I
    /\ nrollouts = it + 1
    /\ costs = Empty /\ top_idx = Empty
    /\ Len(gt_costs_data) = it /\ Len(metric_costs_data) = it

\* C11 witness: rollout generation failed in a second iteration, after one
\* refit
C11_Witness == err = "RolloutError" /\ pc = "raised" /\ it >= 1

\* C12: when a ground-truth rollout call on the shared simulator has
\* returned (the _get_rollouts call of a planning iteration, or
\* compare_optimal_actions), the simulator is in the state it had
\* immediately before the call.
C12_RestoredOnReturn ==
  (s_pc = "idle" /\ s_out = "returned") => sim = pre_call

\* C12 witness: compare_optimal_actions returned after the simulator had
\* been set to a demo start state other than its own
C12_Witness ==
  /\ s_pc = "idle" /\ s_out = "returned" /\ s_caller = "compare"
  /\ gen_saved # pre_call

\* C13, as claimed: when compare_optimal_actions has ended by an exception
\* the simulator is in the state it had before the call.
C13_RestoredOnFailure ==
  (s_pc = "idle" /\ s_out = "raised" /\ s_caller = "compare")
    => sim = pre_call

\* the clamped goal index of step t, as claimed
ClampedGoal(t, G) == IF t < G THEN t ELSE G - 1

\* C14: with a goal sequence of length G >= 1, the frame of step t of every
\* debug gif shows goal index t when t < G and the last index G-1 when
\* t >= G; every goal index used is in 0..G-1 and no IndexError is raised.
C14_GoalClamping ==
  gif_G >= 1 =>
    /\ gif_err # "IndexError"
    /\ \A i \in 1..Len(gif) :
         /\ gif[i] \in 0..(gif_G - 1)
         /\ i >= 2 => gif[i] = ClampedGoal(i - 2, gif_G)

\* C14 witness: G = 2, L = 5, all five steps of a gif appended, steps 2..4
\* showing goal index 1
C14_Witness ==
  /\ gif_G = 2 /\ gif_L = 5 /\ gif_t = 5 /\ Len(gif) = 6
  /\ gif[4] = 1 /\ gif[6] = 1

\* C15, as claimed: two runs from the same seed with the same configuration
\* and cost function have the same mean and std after the same number of
\* iterations, whatever else draws random numbers, and return the same
\* prefix.
C15_Reproducible ==
  /\ r_it["a"] = r_it["b"] =>
       r_mean["a"] = r_mean["b"] /\ r_std["a"] = r_std["b"]
  /\ (r_pc["a"] = "returned" /\ r_pc["b"] = "returned") =>
       r_ret["a"] = r_ret["b"]

\* the motion commands sent in outer step t
CmdsOfStep(t) == {i \in 1..Len(cmds) : cmds[i].step = t}

\* C16: while a planning call is running the driver has sent no motion
\* command for that outer step, and every motion command ever sent carries
\* an action returned by the planning call of its own outer step after all
\* I iterations of that call.
C16_NoActionBeforePlanDone ==
  /\ d_pc = "planning" => (CmdsOfStep(d_t) = {} /\ Len(cmds) = d_t)
  /\ \A i \in 1..Len(cmds) :
       /\ cmds[i].act.plan = cmds[i].step
       /\ cmds[i].act.iters = d_I
       /\ cmds[i].act.idx \in 1..d_R

\* C16 witness: a second planning call is under way, part of its iterations
\* done, after the action of the first call was executed
C16_Witness ==
  d_pc = "planning" /\ d_t = 1 /\ p_it = 1 /\ d_I = 2 /\ Len(cmds) = 1

C18_DriverTerminates ==
  /\ d_t <= max_episode_length
  /\ nplans <= max_episode_length
  /\ d_pc = "finished" => (d_t = max_episode_length /\ d_err = "none")
  /\ d_err = "Timeout" =>
       /\ d_pc = "aborted"
       /\ Cardinality(CmdsOfStep(d_t)) <= 1
       /\ \A i \in 1..Len(cmds) : cmds[i].step <= d_t
       /\ nplans = d_t + 1

\* C18 witness: the motion command of the third outer step timed out
C18_Witness ==
  /\ d_err = "Timeout" /\ d_pc = "aborted" /\ d_t = 2
  /\ Cardinality(CmdsOfStep(2)) = 1

\* C19, as claimed: a call of send_target_eef_request or reset that has sent
\* its goal found the server available, and a call that returned normally
\* had its result arrive within the wait and returns that result.
C19_TimeoutIsFatal ==
  /\ c_pc \in {"wait_result", "get_result"} => c_srv_ok
  /\ (c_pc = "idle" /\ c_out = "returned") =>
       c_srv_ok /\ c_res_ok /\ c_ret = "result"

\* C20, as claimed: at most one goal is outstanding on the server at any
\* moment.
C20_SingleInFlight == Cardinality(active) <= 1

\* C21: when a planning call has failed in outer step t the driver is over
\* with that error: no command of step t or later was sent, every earlier
\* step has exactly its one command, and the last command sent had completed
\* (the state was read after it).
C21_PlanFailureAborts ==
  d_err = "PlanError" =>
    /\ d_pc = "aborted"
    /\ Len(cmds) = d_t
    /\ \A i \in 1..Len(cmds) : cmds[i].step < d_t
    /\ d_read.after = Len(cmds)
    /\ nplans = d_t + 1

\* C21 witness: the planning call of the third outer step failed after two
\* executed actions
C21_Witness ==
  d_err = "PlanError" /\ d_pc = "aborted" /\ d_t = 2 /\ Len(cmds) = 2

\* C22, as claimed: a failure to create the debug folder or to write a debug
\* gif never ends the rollout call (and with it the planning call) by that
\* exception.
C22_DebugOutputBestEffort == ~(gif_err = "OSError" /\ gif_pc = "raised")

\* C23: two workers of different rank never use the same simulator instance
\* and never open the same path for writing, whatever hdf5, gif and stats
\* files each has written so far.
C23_WorkersShareNothing ==
  /\ (w_env[1] # 0 /\ w_env[2] # 0) => w_env[1] # w_env[2]
  /\ w_files[1] \cap w_files[2] = {}

\* C23 witness: both workers are done, with two-digit ranks and trajectory
\* numbers among the names written (rank 1 and rank 11 both wrote files)
C23_Witness ==
  /\ w_pc[1] = "done" /\ w_pc[2] = "done" /\ w_kind = "demos"
  /\ w_rank[1] = 1 /\ w_rank[2] = 11 /\ w_ntraj = MaxTraj
  /\ Cardinality(w_files[1]) = MaxTraj + 1
  /\ Cardinality(w_files[2]) = MaxTraj + 1

\* a value outside the environment's action space
OutOfBounds(x) ==
  IsFinite(x) /\ (Less(Fin(ActionHigh), x) \/ Less(x, Fin(0 - ActionHigh)))

\* C24: in every iteration the candidates the rollout generator receives are
\* exactly the values drawn from Normal(mean, std), values outside the
\* action space included, the elite candidates are rows of that same draw,
\* and the refitted mean and std are the statistics of those rows.
C24_NoClipping ==
  /\ q_pc \in {"select", "refit"} => q_passed = q_sample
  /\ q_pc = "refit" => q_top = IndexSelect(q_sample, q_idx)
  /\ (q_pc \in {"sample", "returned"} /\ q_it >= 1) =>
       LET sm == StdMean(IndexSelect(q_sample, q_idx), q_K, 1, 1)
       IN  q_mean = sm.mean /\ q_std = sm.std

\* C24 witness: a refit has been made from elite candidates that lie outside
\* the action space, and the new mean lies outside it as well
C24_Witness ==
  /\ q_pc = "sample" /\ q_it >= 1
  /\ \A i \in DOMAIN q_idx : OutOfBounds(q_passed[q_idx[i]][0][0])
  /\ OutOfBounds(q_mean[0][0])

\* C26, as claimed: _load_checkpoint() without a path loads the checkpoint
\* of the largest saved step and returns that step, for every set of saved
\* steps and every log_dir; it answers 0 with random models only when no
\* checkpoint exists.
C26_ResumeLoadsLatest ==
  ck_res.kind # "none" =>
    IF ck_res.saw = {}
      THEN ck_res.kind = "random" /\ ck_res.step = 0
      ELSE ck_res.kind = "loaded" /\ ck_res.step = SetMax(ck_res.saw)

\* C27: when _sample_goal or _get_background_img has returned, the joint
\* positions and velocities of robot and object are those the simulator had
\* when the call began.
C27_RenderingRestoresSim == f_pc = "returned" => f_sim = f_entry

\* C27 witness: _get_background_img has returned after the block was out of
\* the scene and the robot had moved
C27_Witness ==
  /\ f_pc = "returned" /\ f_call = "background" /\ f_moved
  /\ f_entry.vel = 1 /\ f_k = SettleSteps

\* what C28 says of the flag and of the kind and size of the returned cost
BlurCostAsSwitched ==
  /\ b_op = "reset" => b_flag = "False"
  /\ b_ret.kind \in {"blur", "unblur"} =>
       /\ b_ret.kind = (IF b_ret.sw THEN "unblur" ELSE "blur")
       /\ b_ret.val = (IF b_ret.sw THEN 0 - (b_scale * b_ret.unblur)
                       ELSE 0 - b_ret.blur)

\* C28 (as amended): every reset() leaves the unblur flag cleared; for reward
\* type inpaint-blur the cost returned at a step is minus the blurred distance
\* if no switch happened since the last reset and minus unblur_cost_scale
\* times the unblurred distance otherwise; the returned value is never
\* positive provided unblur_cost_scale is not negative.
C28_BlurSwitching ==
  /\ BlurCostAsSwitched
  /\ (b_ret.kind \in {"blur", "unblur"} /\ b_scale >= 0) => b_ret.val <= 0

\* C28 witness: after a reset and a switch, a step returned the scaled
\* unblurred cost
C28_Witness ==
  /\ b_ret.kind = "unblur" /\ b_ret.sw /\ b_scale = 3 /\ b_ret.unblur = 1
  /\ b_ret.val = 0 - 3 /\ b_op = "cost" /\ b_flag = "True"

\* C28 as stated: the same, with the returned value never positive whatever
\* unblur_cost_scale is.
C28_NeverPositive ==
  /\ BlurCostAsSwitched
  /\ b_ret.kind \in {"blur", "unblur"} => b_ret.val <= 0

\* C29: with num_workers = n >= 2, create_demo_dataset creates exactly n
\* processes with ranks 0..n-1, has started all of them before it waits on
\* any, and has returned only when all have terminated; with num_workers = 1
\* it creates no process and runs generate_demos itself with rank 0.
C29_PoolLifecycle ==
  /\ Len(p_ps) <= p_n
  /\ \A k \in 1..Len(p_ps) : p_ps[k].rank = k - 1
  /\ (p_n >= 2 /\ p_pc \in {"start", "join", "returned"}) => Len(p_ps) = p_n
  /\ p_pc \in {"join", "returned"} =>
       \A k \in 1..Len(p_ps) : p_ps[k].st # "created"
  /\ p_pc = "returned" => \A k \in 1..Len(p_ps) : p_ps[k].st = "done"
  /\ p_n = 1 => /\ p_ps = <<>>
                /\ p_inline.rank \in {0 - 1, 0}
                /\ p_pc = "returned" => p_inline = [rank |-> 0, st |-> "done"]
  /\ p_n >= 2 => p_inline = NoInline

\* C29 witness: three workers, the last of them still running while the
\* caller waits on the first
C29_Witness ==
  /\ p_n = 3 /\ p_pc = "join" /\ p_i = 0 /\ Len(p_ps) = 3
  /\ p_ps[1].st = "done" /\ p_ps[3].st = "running"

\* C30: for ep_len >= video_length the window satisfies 0 <= start,
\* end <= ep_len and end - start = video_length, the states, masks and qpos
\* read have video_length entries and the actions video_length - 1, so the
\* shape assertion never fails; for ep_len < video_length the call fails with
\* an assertion error.
C30_WindowInBounds ==
  /\ j_pc \in {"windowed", "loaded", "returned"} =>
       /\ j_ep >= j_vl
       /\ 0 <= j_start /\ j_end <= j_ep /\ j_end - j_start = j_vl
  /\ j_pc \in {"loaded", "returned"} =>
       j_lens = [states |-> j_vl, actions |-> j_vl - 1, masks |-> j_vl,
                 qpos |-> j_vl]
  /\ j_err # "AssertionError: shapes"
  /\ (j_pc \notin {"idle", "opened"} /\ j_ep < j_vl) =>
       j_pc = "raised" /\ j_err = "AssertionError"
  /\ j_err = "AssertionError" => j_ep < j_vl

\* C30 witness: a window of 2 taken at the very end of an episode of 4 rows
\* whose actions dataset has 3 rows
C30_Witness ==
  /\ j_pc = "returned" /\ j_vl = 2 /\ j_ep = 4 /\ j_aT = 3
  /\ j_start = 2 /\ j_end = 4 /\ j_lens.actions = 1

====
